---- MODULE Spec2Model ----
(***************************************************************************)
(* A model of the jwt-middleware plugin (src/jwt.go): the per-request      *)
(* validation pipeline (ServeHTTP, validate, extractToken, getKey,         *)
(* validateClaims, allowRefresh, mapClaimsToHeaders), the requirement      *)
(* engine (ValueRequirement, TemplateRequirement) and the key cache        *)
(* (keys, issuerKeys, fetchKeys, purgeKeys).                               *)
(*                                                                         *)
(* Strings are sequences of one-character strings, so that prefix          *)
(* stripping, case folding, globbing and canonicalisation are computed     *)
(* the way the code computes them.                                         *)
(***************************************************************************)
EXTENDS Integers, Sequences, FiniteSets, TLC

(***************************************************************************)
(* Bounds of the model.                                                    *)
(***************************************************************************)
\* time.Now().Unix() ranges over 1..MaxNow
MaxNow == 3

(***************************************************************************)
(* Characters and strings.                                                 *)
(***************************************************************************)
UpperChars == <<"A","B","C","D","E","F","G","H","I","J","K","L","M",
                "N","O","P","Q","R","S","T","U","V","W","X","Y","Z">>
LowerChars == <<"a","b","c","d","e","f","g","h","i","j","k","l","m",
                "n","o","p","q","r","s","t","u","v","w","x","y","z">>

DigitChars == <<"0", "1", "2", "3", "4", "5", "6", "7", "8", "9">>

\* The alphabet of the model: the printable ASCII characters in the order of
\* their byte values, 0x20 to 0x5F and 0x61 to 0x7E (a string of the
\* language cannot hold the grave accent 0x60), and the control characters
\* \t, \n, \f and \r.  The other bytes, and the characters outside ASCII,
\* are not written in the texts of the model.
AsciiLow == <<" ", "!", "\"", "#", "$", "%", "&", "'", "(", ")", "*", "+", ",", "-", ".", "/">>
            \o DigitChars \o <<":", ";", "<", "=", ">", "?", "@">>
            \o UpperChars \o <<"[", "\\", "]", "^", "_">>
AsciiHigh == LowerChars \o <<"{", "|", "}", "~">>

\* The byte value of a character
CharCode(c) ==
    CASE c = "\t" -> 9
      [] c = "\n" -> 10
      [] c = "\f" -> 12
      [] c = "\r" -> 13
      [] \E i \in DOMAIN AsciiLow : AsciiLow[i] = c ->
            31 + (CHOOSE i \in DOMAIN AsciiLow : AsciiLow[i] = c)
      [] \E i \in DOMAIN AsciiHigh : AsciiHigh[i] = c ->
            96 + (CHOOSE i \in DOMAIN AsciiHigh : AsciiHigh[i] = c)

IsLetter(c) == (\E i \in DOMAIN UpperChars : UpperChars[i] = c)
               \/ (\E i \in DOMAIN LowerChars : LowerChars[i] = c)

IsDigit(c) == \E i \in DOMAIN DigitChars : DigitChars[i] = c

\* unicode.ToLower / ToUpper on the ASCII letters
ToLower(c) ==
    IF \E i \in DOMAIN UpperChars : UpperChars[i] = c
    THEN LowerChars[CHOOSE i \in DOMAIN UpperChars : UpperChars[i] = c]
    ELSE c

ToUpper(c) ==
    IF \E i \in DOMAIN LowerChars : LowerChars[i] = c
    THEN UpperChars[CHOOSE i \in DOMAIN LowerChars : LowerChars[i] = c]
    ELSE c

\* strings.EqualFold
EqualFold(s, t) ==
    /\ Len(s) = Len(t)
    /\ \A i \in 1..Len(s) : ToLower(s[i]) = ToLower(t[i])

\* strings.HasSuffix / strings.HasPrefix / strings.Contains (of one character)
HasSuffix(s, suffix) ==
    /\ Len(s) >= Len(suffix)
    /\ SubSeq(s, Len(s) - Len(suffix) + 1, Len(s)) = suffix

HasPrefix(s, prefix) ==
    /\ Len(s) >= Len(prefix)
    /\ SubSeq(s, 1, Len(prefix)) = prefix

ContainsChar(s, c) == \E i \in 1..Len(s) : s[i] = c

\* Concatenation of a sequence of strings
RECURSIVE Concat(_)
Concat(parts) ==
    IF parts = <<>> THEN <<>> ELSE Head(parts) \o Concat(Tail(parts))

\* The elements of a sequence
Range(s) == { s[i] : i \in DOMAIN s }

\* textproto.validHeaderFieldByte: the bytes of a token of RFC 7230
validHeaderFieldByte(c) ==
    IsLetter(c) \/ IsDigit(c)
    \/ c \in {"!", "#", "$", "%", "&", "'", "*", "+", "-", ".", "^", "_", "|", "~"}

\* textproto.CanonicalMIMEHeaderKey: a key with a byte that is no token byte
\* (a space among them) is returned as it is; in any other key the first
\* letter and every letter after a hyphen is put in upper case, the others
\* in lower case
CanonicalMIMEHeaderKey(s) ==
    IF \E i \in 1..Len(s) : ~validHeaderFieldByte(s[i]) THEN s
    ELSE [i \in 1..Len(s) |->
            IF i = 1 \/ s[i - 1] = "-" THEN ToUpper(s[i]) ELSE ToLower(s[i])]

\* The index of the first character of s from `from` on that is not c, or
\* Len(s) + 1
RECURSIVE SkipChar(_, _, _)
SkipChar(s, c, from) ==
    IF from <= Len(s) /\ s[from] = c THEN SkipChar(s, c, from + 1) ELSE from

\* fnmatch.rangematch, the loop over the members of a bracket expression:
\* `pattern` is what follows the '[' and the negation mark, `test` the
\* character; [failed, matched, pattern], pattern being what the loop has
\* not read.  A member is a character or a range c-c2 (compared by byte
\* value), a backslash takes the next character literally, and the loop
\* ends at a ']', at a match or when one character is left.
RECURSIVE rangeMembers(_, _)
rangeMembers(pattern, test) ==
    IF ~(Len(pattern) > 1 /\ pattern[1] # "]")
    THEN [failed |-> FALSE, matched |-> FALSE, pattern |-> pattern]
    ELSE LET escaped == pattern[1] = "\\"
             \* the member's first character and what follows it
             c == IF escaped THEN pattern[2] ELSE pattern[1]
             after == SubSeq(pattern, IF escaped THEN 3 ELSE 2, Len(pattern))
             ranged == after[1] = "-" /\ Len(after) > 1 /\ after[2] # "]"
             escaped2 == after[2] = "\\"
             c2 == IF escaped2 THEN after[3] ELSE after[2]
             rest == IF ~ranged THEN after
                     ELSE SubSeq(after, IF escaped2 THEN 4 ELSE 3, Len(after))
         IN IF escaped /\ ~(Len(pattern) - 1 > 1)
            THEN [failed |-> TRUE, matched |-> FALSE, pattern |-> <<>>]
            ELSE IF ranged /\ escaped2 /\ ~(Len(after) - 2 > 0)
            THEN [failed |-> TRUE, matched |-> FALSE, pattern |-> <<>>]
            ELSE IF (IF ranged
                     THEN CharCode(c) <= CharCode(test) /\ CharCode(test) <= CharCode(c2)
                     ELSE c = test)
            THEN [failed |-> FALSE, matched |-> TRUE, pattern |-> rest]
            ELSE rangeMembers(rest, test)

\* fnmatch.rangematch, the skip to the end of the bracket expression:
\* [ok, pattern], ok when a ']' closes it and pattern what follows the ']'
RECURSIVE rangeClose(_)
rangeClose(pattern) ==
    IF pattern = <<>> THEN [ok |-> FALSE, pattern |-> <<>>]
    ELSE IF pattern[1] = "\\" /\ Len(pattern) > 1 THEN rangeClose(SubSeq(pattern, 3, Len(pattern)))
    ELSE IF pattern[1] = "]" THEN [ok |-> TRUE, pattern |-> Tail(pattern)]
    ELSE rangeClose(Tail(pattern))

\* fnmatch.rangematch(pattern, test, 0): [ok, pattern], ok when `test`
\* matches the bracket expression whose text after the '[' starts `pattern`
rangematch(pattern, test) ==
    LET negate == pattern # <<>> /\ pattern[1] \in {"^", "!"}
        members == rangeMembers(IF negate THEN Tail(pattern) ELSE pattern, test)
        close == rangeClose(members.pattern)
    IN IF pattern = <<>> \/ members.failed
       THEN [ok |-> FALSE, pattern |-> <<>>]
       ELSE [ok |-> close.ok /\ (members.matched # negate), pattern |-> close.pattern]

\* fnmatch.Match(pattern, s, 0): '?' matches any one character, '*' any run
\* of characters, '[' opens a bracket expression, a backslash takes the next
\* character of the pattern literally (the last character of a pattern, it
\* stands for itself), every other character matches itself (no flags are
\* passed, so '/' and a leading '.' are ordinary characters)
RECURSIVE FnMatch(_, _)
FnMatch(pattern, s) ==
    IF pattern = <<>> THEN s = <<>>
    ELSE LET c == Head(pattern)
         IN CASE c = "?" -> s # <<>> /\ FnMatch(Tail(pattern), Tail(s))
              [] c = "*" ->
                    LET rest == SubSeq(pattern, SkipChar(pattern, "*", 1), Len(pattern))
                    IN \/ rest = <<>>
                       \/ \E k \in 1..Len(s) : FnMatch(rest, SubSeq(s, k, Len(s)))
              [] c = "[" ->
                    /\ s # <<>>
                    /\ LET range == rangematch(Tail(pattern), Head(s))
                       IN range.ok /\ FnMatch(range.pattern, Tail(s))
              [] c = "\\" ->
                    LET literal == IF Len(pattern) > 1 THEN pattern[2] ELSE c
                        rest == SubSeq(pattern, IF Len(pattern) > 1 THEN 3 ELSE 2, Len(pattern))
                    IN s # <<>> /\ Head(s) = literal /\ FnMatch(rest, Tail(s))
              [] OTHER -> s # <<>> /\ Head(s) = c /\ FnMatch(Tail(pattern), Tail(s))

(***************************************************************************)
(* JSON values (token claims) and configuration values (requirements).     *)
(* A value is a record [t, v]: t is the Go dynamic type, v the payload.    *)
(*   str   string            v: the characters                             *)
(*   num   json.Number       v: the literal [neg, whole, frac]             *)
(*   int   int               v: the integer                                *)
(*   float float64           v: [neg, whole, frac]                         *)
(*   bool  bool              v: the boolean                                *)
(*   nil   nil               v: <<>>                                       *)
(*   arr   []any             v: the sequence of elements                   *)
(*   obj   map[string]any    v: the function from keys to values           *)
(* The parser is built WithJSONNumber (jwt.go:170), so every number of a   *)
(* token is a json.Number, which keeps the literal text.                   *)
(***************************************************************************)
Str(s) == [t |-> "str", v |-> s]
Bool(b) == [t |-> "bool", v |-> b]
Nil == [t |-> "nil", v |-> <<>>]
Arr(a) == [t |-> "arr", v |-> a]
Obj(o) == [t |-> "obj", v |-> o]
\* the literal whole.frac, frac being the digits after the point (<<>>: no
\* point); the literals of the model have no exponent part
Num(whole, frac) == [t |-> "num", v |-> [neg |-> FALSE, whole |-> whole, frac |-> frac]]
IntV(n) == [t |-> "int", v |-> n]
FloatV(whole, frac) == [t |-> "float", v |-> [neg |-> FALSE, whole |-> whole, frac |-> frac]]

\* The empty map
EmptyMap == [k \in {} |-> Nil]

\* json.Number.Int64 (strconv.ParseInt): only a literal without a fraction
\* part parses; [ok, value]
NumberInt64(lit) ==
    IF lit.frac = <<>>
    THEN [ok |-> TRUE, value |-> IF lit.neg THEN 0 - lit.whole ELSE lit.whole]
    ELSE [ok |-> FALSE, value |-> 0]

\* The precision of a float64 in bits, and the exponent of its least
\* subnormal bit
Float64Precision == 53
Float64MinExponent == -1074

\* The bits of a natural number, the most significant first (<<>> for 0)
RECURSIVE Binary(_)
Binary(n) == IF n = 0 THEN <<>> ELSE Binary(n \div 2) \o <<n % 2>>

\* The natural number of a sequence of bits
RECURSIVE FromBinary(_)
FromBinary(bits) ==
    IF bits = <<>> THEN 0
    ELSE 2 * FromBinary(SubSeq(bits, 1, Len(bits) - 1)) + bits[Len(bits)]

AllZero(digits) == \A i \in DOMAIN digits : digits[i] = 0

\* Twice the decimal fraction 0.d1d2...: [carry, digits].  The carry into a
\* digit is one exactly when the digit behind it is 5 or more.
DoubleFraction(digits) ==
    [carry |-> IF digits # <<>> /\ digits[1] >= 5 THEN 1 ELSE 0,
     digits |-> <<>> \o [i \in DOMAIN digits |->
                    ((2 * digits[i]) % 10)
                    + (IF i < Len(digits) /\ digits[i + 1] >= 5 THEN 1 ELSE 0)]]

\* The first `count` bits of the binary expansion of a decimal fraction and
\* the fraction that is left: [bits, digits].  One bit is the carry of a
\* doubling; more bits are those of the first half followed by those of the
\* rest, and a fraction that is zero has zero bits only.
RECURSIVE FractionBits(_, _)
FractionBitsJoin(first, second) ==
    [bits |-> first.bits \o second.bits, digits |-> second.digits]

FractionBitsThen(first, count) ==
    FractionBitsJoin(first, FractionBits(first.digits, count))

FractionBits(digits, count) ==
    IF count <= 0 THEN [bits |-> <<>>, digits |-> digits]
    ELSE IF AllZero(digits)
    THEN [bits |-> <<>> \o [i \in 1..count |-> 0], digits |-> digits]
    ELSE IF count = 1
    THEN [bits |-> <<DoubleFraction(digits).carry>>,
          digits |-> DoubleFraction(digits).digits]
    ELSE FractionBitsThen(FractionBits(digits, count \div 2), count - (count \div 2))

\* The zero bits that the binary expansion of a decimal fraction starts
\* with, counted up to the least exponent of a float64: [zeros, digits],
\* digits being the fraction that is left
RECURSIVE SkipZeroBits(_, _)
SkipZeroBitsNext(twice, digits, zeros) ==
    IF twice.carry = 1 THEN [zeros |-> zeros, digits |-> digits]
    ELSE SkipZeroBits(twice.digits, zeros + 1)

SkipZeroBits(digits, zeros) ==
    IF zeros > 1 - Float64MinExponent THEN [zeros |-> zeros, digits |-> digits]
    ELSE SkipZeroBitsNext(DoubleFraction(digits), digits, zeros)

\* One more in the last place of a sequence of bits: [carry, bits]
Increment(bits) ==
    LET zeros == { i \in DOMAIN bits : bits[i] = 0 }
        last == CHOOSE i \in zeros : \A j \in zeros : j <= i
    IN IF zeros = {} THEN [carry |-> 1, bits |-> [i \in DOMAIN bits |-> 0]]
       ELSE [carry |-> 0,
             bits |-> [i \in DOMAIN bits |->
                          IF i < last THEN bits[i] ELSE IF i = last THEN 1 ELSE 0]]

\* A sequence of bits without its trailing zeros
TrimZeroBits(bits) ==
    LET ones == { i \in DOMAIN bits : bits[i] = 1 }
    IN IF ones = {} THEN <<>>
       ELSE SubSeq(bits, 1, CHOOSE i \in ones : \A j \in ones : j <= i)

\* A float64 is [neg, exp, mant]: mant the bits of the significand from its
\* leading one on, without trailing zeros, and exp the binary exponent of
\* the leading one; zero has no bits
Float64Zero(neg) == [neg |-> neg, exp |-> 0, mant |-> <<>>]

\* Rounding to the nearest float64, ties to even: `kept` are the bits that
\* fit, the first with exponent exp, `guard` the bit after them and
\* `sticky` whether a one follows the guard
RoundBits(neg, kept, exp, guard, sticky) ==
    LET up == guard = 1 /\ (sticky \/ (kept # <<>> /\ kept[Len(kept)] = 1))
        more == Increment(kept)
        mant == TrimZeroBits(IF ~up THEN kept
                             ELSE IF more.carry = 1 THEN <<1>> \o more.bits
                             ELSE more.bits)
    IN IF mant = <<>> THEN Float64Zero(neg)
       ELSE [neg |-> neg, exp |-> IF up /\ more.carry = 1 THEN exp + 1 ELSE exp,
             mant |-> mant]

\* The float64 of the bits `front` whose first has the exponent exp,
\* followed by the first `count` bits of `take`, the bit after them being
\* the guard
RoundTaken(neg, front, exp, take, count) ==
    RoundBits(neg, front \o SubSeq(take.bits, 1, count), exp,
              take.bits[count + 1], ~AllZero(take.digits))

\* The float64 of a fraction whose binary expansion has `skip.zeros` zero
\* bits before its first one: the bits down to the least exponent are kept
Float64Fraction(neg, skip, exp, least) ==
    IF exp - least + 1 < 0 THEN Float64Zero(neg)
    ELSE RoundTaken(neg, <<>>, exp, FractionBits(skip.digits, exp - least + 2),
                    exp - least + 1)

Float64Small(neg, skip) ==
    Float64Fraction(neg, skip, 0 - (skip.zeros + 1),
                    IF 0 - (skip.zeros + 1) - (Float64Precision - 1) > Float64MinExponent
                    THEN 0 - (skip.zeros + 1) - (Float64Precision - 1)
                    ELSE Float64MinExponent)

Float64Whole(neg, whole, frac) ==
    RoundTaken(neg, whole, Len(whole) - 1,
               FractionBits(frac, Float64Precision - Len(whole) + 1),
               Float64Precision - Len(whole))

\* json.Number.Float64 (strconv.ParseFloat(literal, 64)): the float64
\* nearest to the decimal literal
Float64(lit) ==
    IF lit.whole # 0 THEN Float64Whole(lit.neg, Binary(lit.whole), lit.frac)
    ELSE IF AllZero(lit.frac) THEN Float64Zero(lit.neg)
    ELSE Float64Small(lit.neg, SkipZeroBits(lit.frac, 0))

\* The == of two float64: the same number (the two zeros are equal)
Float64Equal(x, y) == (x.mant = <<>> /\ y.mant = <<>>) \/ x = y

\* json.Number.Float64 compared with the float64 of the requirement (the
\* float64 nearest to the literal the configuration writes it with)
FloatEqual(a, b) == Float64Equal(Float64(a), Float64(b))

\* a > b for two sequences of bits of one length
BitsGreater(a, b) ==
    \E i \in DOMAIN a : a[i] > b[i] /\ \A j \in 1..(i - 1) : a[j] = b[j]

\* The bits of a float64 before the binary point, and those after it
WholeBits(f) ==
    IF f.mant = <<>> \/ f.exp < 0 THEN <<>>
    ELSE <<>> \o [i \in 1..(f.exp + 1) |-> IF i <= Len(f.mant) THEN f.mant[i] ELSE 0]

FractionOfBits(f) ==
    IF f.mant = <<>> THEN <<>>
    ELSE IF f.exp < 0 THEN [i \in 1..(0 - f.exp - 1) |-> 0] \o f.mant
    ELSE SubSeq(f.mant, f.exp + 2, Len(f.mant))

\* A nanosecond, as the digits of a fraction of a second
NanosecondDigits == <<0, 0, 0, 0, 0, 0, 0, 0, 1>>

\* jwt.newNumericDateFromSeconds and NewNumericDate: the whole seconds and
\* the whole nanoseconds of the float64 (math.Modf, int64(frac*1e9)) make
\* the time, which is rounded down to a second (Truncate); the result is in
\* seconds since the epoch
NumericDateOf(neg, whole, fraction) ==
    IF ~neg THEN FromBinary(whole)
    ELSE 0 - FromBinary(whole)
           - (IF BitsGreater(fraction, FractionBits(NanosecondDigits, Len(fraction)).bits)
              THEN 1 ELSE 0)

NumericDateOfFloat(f) == NumericDateOf(f.neg, WholeBits(f), FractionOfBits(f))

\* MapClaims.parseNumericDate for a json.Number
NumericDate(lit) == NumericDateOfFloat(Float64(lit))

\* reflect.DeepEqual on two values: same dynamic type and same contents
DeepEqual(a, b) == a = b

(***************************************************************************)
(* Templates (html/template, Option missingkey=error).  A parsed template  *)
(* is [err, parts]: err is "" or the reason why Parse fails, and parts the *)
(* sequence of its parts [k, s, fn]: literal text (k = "lit", s the text), *)
(* a field of the data {{.Name}} (k = "var", s the name), a function       *)
(* applied to a field {{Fn .Name}} (k = "call", fn the function, s the     *)
(* name) or a function applied to another number of fields (k = "fail":    *)
(* Execute fails on the number of arguments).  The model knows these       *)
(* actions in HTML text; a template with anything else of the template     *)
(* language (pipelines, constants, the predefined functions, control       *)
(* structures, comments, trim markers, markup) is marked ErrNotModelled.   *)
(***************************************************************************)
\* The first position at or after `from` where `sub` starts in s, or 0
Index(s, sub, from) ==
    LET hits == { i \in from..(Len(s) - Len(sub) + 1) : SubSeq(s, i, i + Len(sub) - 1) = sub }
    IN IF hits = {} THEN 0 ELSE CHOOSE i \in hits : \A j \in hits : i <= j

\* strings.Contains
Contains(s, sub) == Index(s, sub, 1) # 0

\* strings.Fields: the words of s separated by spaces
RECURSIVE Fields(_)
Fields(s) ==
    IF s = <<>> THEN <<>>
    ELSE IF Head(s) = " " THEN Fields(Tail(s))
    ELSE LET space == Index(s, <<" ">>, 1)
         IN IF space = 0 THEN <<s>>
            ELSE <<SubSeq(s, 1, space - 1)>> \o Fields(SubSeq(s, space + 1, Len(s)))

\* The functions NewTemplate registers
FnURLQueryEscape == <<"U","R","L","Q","u","e","r","y","E","s","c","a","p","e">>
FnHTMLEscape == <<"H","T","M","L","E","s","c","a","p","e">>
TemplateFunctions == { FnURLQueryEscape, FnHTMLEscape }

\* NewRequirement registers no function
NoFunctions == {}

\* The predefined functions and the keywords of text/template
TemplatePredefined ==
    { <<"a", "n", "d">>, <<"c", "a", "l", "l">>, <<"h", "t", "m", "l">>,
      <<"i", "n", "d", "e", "x">>, <<"s", "l", "i", "c", "e">>, <<"j", "s">>, <<"l", "e", "n">>,
      <<"n", "o", "t">>, <<"o", "r">>, <<"p", "r", "i", "n", "t">>,
      <<"p", "r", "i", "n", "t", "f">>, <<"p", "r", "i", "n", "t", "l", "n">>,
      <<"u", "r", "l", "q", "u", "e", "r", "y">>, <<"e", "q">>, <<"g", "e">>, <<"g", "t">>,
      <<"l", "e">>, <<"l", "t">>, <<"n", "e">>, <<"b", "l", "o", "c", "k">>,
      <<"b", "r", "e", "a", "k">>, <<"c", "o", "n", "t", "i", "n", "u", "e">>,
      <<"d", "e", "f", "i", "n", "e">>, <<"e", "l", "s", "e">>, <<"e", "n", "d">>, <<"i", "f">>,
      <<"r", "a", "n", "g", "e">>, <<"n", "i", "l">>, <<"t", "e", "m", "p", "l", "a", "t", "e">>,
      <<"w", "i", "t", "h">>, <<"t", "r", "u", "e">>, <<"f", "a", "l", "s", "e">> }

\* The reasons why template.Parse fails
ErrUnclosedAction == "unclosed action"
ErrMissingValue == "missing value for command"
ErrFunctionNotDefined == "function not defined"
\* The template is outside the template language of the model
ErrNotModelled == "template not modelled"

\* An identifier, and a field of the data: a dot and an identifier
IsIdentifier(word) ==
    /\ word # <<>>
    /\ IsLetter(word[1]) \/ word[1] = "_"
    /\ \A i \in DOMAIN word : IsLetter(word[i]) \/ IsDigit(word[i]) \/ word[i] = "_"

IsField(word) == Len(word) > 1 /\ word[1] = "." /\ IsIdentifier(Tail(word))

TemplatePart(k, s, fn) == [err |-> "", part |-> [k |-> k, s |-> s, fn |-> fn]]
TemplateError(err) == [err |-> err, part |-> [k |-> "fail", s |-> <<>>, fn |-> <<>>]]

\* One action {{ ... }} of a template that registers `functions`: [err,
\* part].  A word that is an identifier names a function, which Parse looks
\* up; the number of its arguments is checked when it is called.
TemplateActionWords(words, functions) ==
    IF words = <<>> THEN TemplateError(ErrMissingValue)
    ELSE IF IsField(words[1])
    THEN IF Len(words) = 1 THEN TemplatePart("var", Tail(words[1]), <<>>)
         ELSE TemplateError(ErrNotModelled)
    ELSE IF ~IsIdentifier(words[1]) \/ words[1] \in TemplatePredefined
    THEN TemplateError(ErrNotModelled)
    ELSE IF words[1] \notin functions THEN TemplateError(ErrFunctionNotDefined)
    ELSE IF \E i \in 2..Len(words) : ~IsField(words[i])
    THEN TemplateError(ErrNotModelled)
    ELSE IF Len(words) = 2 THEN TemplatePart("call", Tail(words[2]), words[1])
    ELSE TemplatePart("fail", <<>>, words[1])

TemplateAction(inner, functions) ==
    IF \E i \in DOMAIN inner :
          ~(IsLetter(inner[i]) \/ IsDigit(inner[i]) \/ inner[i] \in {" ", ".", "_"})
    THEN TemplateError(ErrNotModelled)
    ELSE TemplateActionWords(Fields(inner), functions)

\* The template so far with one more part, or with the reason why it fails:
\* the first reason is kept, and ErrNotModelled before any other
TemplateWith(parsed, next) ==
    IF next.err = ""
    THEN [parsed EXCEPT !.parts = @ \o <<next.part>>]
    ELSE IF parsed.err = "" \/ next.err = ErrNotModelled
    THEN [parsed EXCEPT !.err = next.err]
    ELSE parsed

\* Literal text: markup changes the context, and with it the escaper, of
\* the actions behind it
TemplateText(parsed, text) ==
    IF text = <<>> THEN parsed
    ELSE IF ContainsChar(text, "<") THEN TemplateWith(parsed, TemplateError(ErrNotModelled))
    ELSE TemplateWith(parsed, TemplatePart("lit", text, <<>>))

\* template.Parse from `text` on: the text before an action is literal, an
\* action reaches to the next "}}", and one that is not closed is an error
RECURSIVE ParseTemplateFrom(_, _, _)
ParseTemplateFrom(text, functions, parsed) ==
    LET open == Index(text, <<"{", "{">>, 1)
        close == IF open = 0 THEN 0 ELSE Index(text, <<"}", "}">>, open + 2)
    IN IF open = 0 THEN TemplateText(parsed, text)
       ELSE IF close = 0
       THEN TemplateWith(TemplateText(parsed, SubSeq(text, 1, open - 1)),
                         TemplateError(ErrUnclosedAction))
       ELSE ParseTemplateFrom(
                SubSeq(text, close + 2, Len(text)), functions,
                TemplateWith(TemplateText(parsed, SubSeq(text, 1, open - 1)),
                             TemplateAction(SubSeq(text, open + 2, close - 1), functions)))

\* template.New("template").Funcs(functions).Parse(text): [err, parts]
ParseTemplate(text, functions) ==
    ParseTemplateFrom(text, functions, [err |-> "", parts |-> <<>>])

\* html.EscapeString, the template function HTMLEscape
HTMLEscapeChar(c) ==
    CASE c = "&" -> <<"&", "a", "m", "p", ";">>
      [] c = "'" -> <<"&", "#", "3", "9", ";">>
      [] c = "<" -> <<"&", "l", "t", ";">>
      [] c = ">" -> <<"&", "g", "t", ";">>
      [] c = "\"" -> <<"&", "#", "3", "4", ";">>
      [] OTHER -> <<c>>

HTMLEscape(s) == Concat([i \in 1..Len(s) |-> HTMLEscapeChar(s[i])])

\* html/template's escaper for the value of an action in HTML text
\* (htmlReplacementTable): the characters of html.EscapeString, and the plus
htmlReplacementChar(c) ==
    IF c = "+" THEN <<"&", "#", "4", "3", ";">> ELSE HTMLEscapeChar(c)

htmlEscaper(s) == Concat([i \in 1..Len(s) |-> htmlReplacementChar(s[i])])

\* The digits of the hexadecimal escapes of net/url
UpperHex == DigitChars \o <<"A", "B", "C", "D", "E", "F">>

\* url.QueryEscape: letters, digits, '-', '_', '.' and '~' are kept, a space
\* becomes '+' and every other byte %XX
URLQueryEscapeChar(c) ==
    IF IsLetter(c) \/ IsDigit(c) \/ c \in {"-", "_", ".", "~"} THEN <<c>>
    ELSE IF c = " " THEN <<"+">>
    ELSE <<"%", UpperHex[(CharCode(c) \div 16) + 1], UpperHex[(CharCode(c) % 16) + 1]>>

URLQueryEscape(s) == Concat([i \in 1..Len(s) |-> URLQueryEscapeChar(s[i])])

\* template.Execute on a map with missingkey=error: [ok, text].  A field
\* that the map lacks is an error; the value of an action, after its
\* function, is escaped for HTML text.
RECURSIVE ExecuteTemplate(_, _)
ExecuteTemplate(parts, variables) ==
    IF parts = <<>> THEN [ok |-> TRUE, text |-> <<>>]
    ELSE LET part == Head(parts)
             rest == ExecuteTemplate(Tail(parts), variables)
         IN IF part.k = "lit"
            THEN [ok |-> rest.ok, text |-> IF rest.ok THEN part.s \o rest.text ELSE <<>>]
            ELSE IF part.k = "fail" \/ part.s \notin DOMAIN variables \/ ~rest.ok
            THEN [ok |-> FALSE, text |-> <<>>]
            ELSE LET value == variables[part.s]
                     applied == IF part.k = "var" THEN value
                                ELSE IF part.fn = FnURLQueryEscape THEN URLQueryEscape(value)
                                ELSE HTMLEscape(value)
                 IN [ok |-> TRUE, text |-> htmlEscaper(applied) \o rest.text]

(***************************************************************************)
(* The requirement engine.  A requirement is [kind, value, nested]: kind   *)
(* "value" with the required value, or kind "template" with the parsed     *)
(* template; nested is the nested requirement value (Nil: none).           *)
(***************************************************************************)
\* A nested comparison that asks for every required value (AND)
ValidateNestedAll(nested, value) ==
    IF nested.t = "nil" THEN TRUE
    ELSE LET required == IF nested.t = "arr" THEN nested.v ELSE <<nested>>
             supplied == IF value.t = "arr" THEN value.v
                         ELSE IF value.t = "nil" THEN <<>>
                         ELSE <<value>>
         IN \A i \in DOMAIN required : \E j \in DOMAIN supplied :
                DeepEqual(required[i], supplied[j])

\* ValueRequirement.ValidateNested: some required value deep-equals some
\* supplied value; no nested requirement is always satisfied
ValidateNested(nested, value) ==
    IF nested.t = "nil" THEN TRUE
    ELSE LET required == IF nested.t = "arr" THEN nested.v ELSE <<nested>>
             supplied == IF value.t = "arr" THEN value.v
                         ELSE IF value.t = "nil" THEN <<>>
                         ELSE <<value>>
         IN \E i \in DOMAIN required : \E j \in DOMAIN supplied :
                DeepEqual(required[i], supplied[j])

\* A comparison of strings in which a wildcard grants nothing
StringMatchesExactly(required, value) == value = required

\* The string case of ValueRequirement.Validate: the claim's value is the
\* pattern that fnmatch matches the required string against
StringMatches(required, value) ==
    FnMatch(value, required) \/ value = <<"*", ".">> \o required

\* A Validate that asks every member of a collection to match
RECURSIVE ValueValidateEveryMember(_, _, _)
ValueValidateEveryMember(required, nested, value) ==
    CASE value.t = "arr" ->
            \/ \A i \in DOMAIN value.v : ValueValidateEveryMember(required, nested, value.v[i])
            \/ DeepEqual(value, required)
      [] value.t = "obj" ->
            \/ \A key \in DOMAIN value.v :
                  /\ ValueValidateEveryMember(required, nested, Str(key))
                  /\ ValidateNested(nested, value.v[key])
            \/ DeepEqual(value, required)
      [] value.t = "str" ->
            /\ required.t = "str"
            /\ StringMatches(required.v, value.v)
      [] OTHER -> DeepEqual(value, required)

\* ValueRequirement.Validate
RECURSIVE ValueValidate(_, _, _)
ValueValidate(required, nested, value) ==
    CASE value.t = "arr" ->
            \/ \E i \in DOMAIN value.v : ValueValidate(required, nested, value.v[i])
            \/ DeepEqual(value, required)
      [] value.t = "obj" ->
            \/ \E key \in DOMAIN value.v :
                  /\ ValueValidate(required, nested, Str(key))
                  /\ ValidateNested(nested, value.v[key])
            \/ DeepEqual(value, required)
      [] value.t = "str" ->
            /\ required.t = "str"
            /\ StringMatches(required.v, value.v)
      [] value.t = "num" ->
            CASE required.t = "int" ->
                    /\ NumberInt64(value.v).ok
                    /\ NumberInt64(value.v).value = required.v
              [] required.t = "float" -> FloatEqual(value.v, required.v)
              [] OTHER -> FALSE
      [] OTHER -> DeepEqual(value, required)

\* TemplateRequirement.Validate and the dispatch of Requirement.Validate
RequirementValidate(requirement, value, variables) ==
    IF requirement.kind = "template"
    THEN LET expanded == ExecuteTemplate(requirement.value, variables)
         IN /\ expanded.ok
            /\ ValueValidate(Str(expanded.text), requirement.nested, value)
    ELSE ValueValidate(requirement.value, requirement.nested, value)

\* A TemplateRequirement of a parsed template; err is the reason why
\* template.Must panics ("": it does not)
TemplateRequirement(parsed, nested) ==
    [kind |-> "template", value |-> parsed.parts, nested |-> nested, err |-> parsed.err]

\* NewRequirement: a string with both interpolation markers is a template,
\* parsed without any function registered
NewRequirement(value, nested) ==
    IF value.t = "str" /\ Contains(value.v, <<"{", "{">>) /\ Contains(value.v, <<"}", "}">>)
    THEN TemplateRequirement(ParseTemplate(value.v, NoFunctions), nested)
    ELSE [kind |-> "value", value |-> value, nested |-> nested, err |-> ""]

\* The sequences that enumerate a set, each element once: the orders in
\* which a Go map can be ranged over
Orders(S) ==
    { order \in [1..Cardinality(S) -> S] : \A x \in S : \E i \in DOMAIN order : order[i] = x }

\* A sequence of the elements of a set (the order of a Go map iteration is
\* unspecified; no caller depends on it)
RECURSIVE SetToSeq(_)
SetToSeq(S) ==
    IF S = {} THEN <<>>
    ELSE LET x == CHOOSE x \in S : TRUE IN <<x>> \o SetToSeq(S \ {x})

\* convertRequire: for each claim its ClaimRequirements, a sequence
convertRequire(require) ==
    [claim \in DOMAIN require |->
        LET value == require[claim]
        IN CASE value.t = "arr" ->
                   [i \in DOMAIN value.v |-> NewRequirement(value.v[i], Nil)]
             [] value.t = "obj" ->
                   LET keys == SetToSeq(DOMAIN value.v)
                   IN [i \in DOMAIN keys |-> NewRequirement(Str(keys[i]), value.v[keys[i]])]
             [] OTHER -> << NewRequirement(value, Nil) >>]

\* A ClaimRequirements that asks for every one of its requirements
ClaimRequirementsValidateAll(requirements, value, variables) ==
    \A i \in DOMAIN requirements :
        RequirementValidate(requirements[i], value, variables)

\* ClaimRequirements.validate: any requirement satisfies the claim (OR)
ClaimRequirementsValidate(requirements, value, variables) ==
    \E i \in DOMAIN requirements : RequirementValidate(requirements[i], value, variables)

\* validateClaims: every configured claim is present and valid (AND);
\* TRUE for a nil error
validateClaims(require, claims, variables) ==
    \A claim \in DOMAIN require :
        /\ claim \in DOMAIN claims
        /\ ClaimRequirementsValidate(require[claim], claims[claim], variables)

(***************************************************************************)
(* Requests.  A request is                                                 *)
(*   [method, host, url: [scheme, host, path, rawQuery], requestURI,       *)
(*    header, cookies]                                                     *)
(* header maps a header name to the sequence of its values; the Cookie     *)
(* header is kept apart, as the sequence of [name, value] pairs that       *)
(* request.Cookies() reads from it.  url.path is the decoded path of a URL *)
(* whose RawPath is empty, and url.rawQuery the query as it was written.   *)
(***************************************************************************)
\* a < b for two strings, byte by byte (the order sort.Strings uses)
RECURSIVE StringLess(_, _)
StringLess(a, b) ==
    IF b = <<>> THEN FALSE
    ELSE IF a = <<>> THEN TRUE
    ELSE IF Head(a) = Head(b) THEN StringLess(Tail(a), Tail(b))
    ELSE CharCode(Head(a)) < CharCode(Head(b))

\* The keys of a set of strings in increasing order
RECURSIVE SortStrings(_)
SortStrings(S) ==
    IF S = {} THEN <<>>
    ELSE LET least == CHOOSE x \in S : \A y \in S \ {x} : StringLess(x, y)
         IN <<least>> \o SortStrings(S \ {least})

\* strings.Split on one character
RECURSIVE Split(_, _)
Split(s, c) ==
    LET at == Index(s, <<c>>, 1)
    IN IF at = 0 THEN <<s>>
       ELSE <<SubSeq(s, 1, at - 1)>> \o Split(SubSeq(s, at + 1, Len(s)), c)

\* The value of a hexadecimal digit, -1 for any other character
HexValue(c) ==
    LET lower == <<"a", "b", "c", "d", "e", "f">>
    IN IF \E i \in DOMAIN UpperHex : UpperHex[i] = c
       THEN (CHOOSE i \in DOMAIN UpperHex : UpperHex[i] = c) - 1
       ELSE IF \E i \in DOMAIN lower : lower[i] = c
       THEN (CHOOSE i \in DOMAIN lower : lower[i] = c) + 9
       ELSE -1

\* The character of a byte value; the model has the characters of CharCode
CharOfCode(code) ==
    CHOOSE c \in { AsciiLow[i] : i \in DOMAIN AsciiLow } \cup { AsciiHigh[i] : i \in DOMAIN AsciiHigh }
                 \cup { "\t", "\n", "\f", "\r" } : CharCode(c) = code

\* url.QueryUnescape fails on a '%' that two hexadecimal digits do not follow
QueryUnescapeFails(s) ==
    \E i \in DOMAIN s :
        /\ s[i] = "%"
        /\ ~(i + 2 <= Len(s) /\ HexValue(s[i + 1]) >= 0 /\ HexValue(s[i + 2]) >= 0)

\* url.QueryUnescape of a text it does not fail on: %XX is a byte and '+' a
\* space
RECURSIVE QueryUnescape(_)
QueryUnescape(s) ==
    IF s = <<>> THEN <<>>
    ELSE IF Head(s) = "%"
    THEN <<CharOfCode((16 * HexValue(s[2])) + HexValue(s[3]))>>
         \o QueryUnescape(SubSeq(s, 4, Len(s)))
    ELSE <<(IF Head(s) = "+" THEN " " ELSE Head(s))>> \o QueryUnescape(Tail(s))

\* The key and the value of one pair of a query: strings.Cut at the first '='
PairKey(pair) ==
    LET at == Index(pair, <<"=">>, 1) IN IF at = 0 THEN pair ELSE SubSeq(pair, 1, at - 1)

PairValue(pair) ==
    LET at == Index(pair, <<"=">>, 1) IN IF at = 0 THEN <<>> ELSE SubSeq(pair, at + 1, Len(pair))

\* url.ParseQuery, its error dropped as URL.Query() does: the [key, value]
\* pairs in the order of the text.  An empty pair is skipped, and so is one
\* with a semicolon or with a key or a value that cannot be unescaped.
ParseQuery(rawQuery) ==
    LET Parsed(pair) == /\ pair # <<>>
                        /\ ~ContainsChar(pair, ";")
                        /\ ~QueryUnescapeFails(PairKey(pair))
                        /\ ~QueryUnescapeFails(PairValue(pair))
        pairs == SelectSeq(Split(rawQuery, "&"), Parsed)
    IN <<>> \o [i \in DOMAIN pairs |-> [key |-> QueryUnescape(PairKey(pairs[i])),
                                       value |-> QueryUnescape(PairValue(pairs[i]))]]

\* URL.Query
URLQuery(url) == ParseQuery(url.rawQuery)

\* url.Values.Del
QueryDel(query, name) == LET Other(pair) == pair.key # name IN SelectSeq(query, Other)

\* The text of a query: key=value pairs joined by '&', each escaped
RECURSIVE QueryString(_)
QueryString(query) ==
    IF query = <<>> THEN <<>>
    ELSE URLQueryEscape(Head(query).key) \o <<"=">> \o URLQueryEscape(Head(query).value)
         \o (IF Len(query) > 1 THEN <<"&">> ELSE <<>>) \o QueryString(Tail(query))

\* url.Values.Encode on the pairs of a query: the keys sorted, the values of
\* one key in their order
QueryEncode(query) ==
    LET keys == SortStrings({ query[i].key : i \in DOMAIN query })
        OfKey(key) == LET Is(pair) == pair.key = key IN SelectSeq(query, Is)
    IN QueryString(Concat([i \in DOMAIN keys |-> OfKey(keys[i])]))

\* The bytes that net/url leaves as they are in a path and in a host, besides
\* letters, digits, '-', '_', '.' and '~' (shouldEscape)
encodePath == { "$", "&", "+", ",", "/", ":", ";", "=", "@" }
encodeHost == { "!", "$", "&", "'", "(", ")", "*", "+", ",", ";", "=", ":", "[", "]", "<", ">", "\"" }

\* escape of net/url in one of these modes: every other byte is %XX
escape(s, mode) ==
    LET Escaped(c) ==
            IF IsLetter(c) \/ IsDigit(c) \/ c \in {"-", "_", ".", "~"} \/ c \in mode THEN <<c>>
            ELSE <<"%", UpperHex[(CharCode(c) \div 16) + 1], UpperHex[(CharCode(c) % 16) + 1]>>
    IN Concat([i \in 1..Len(s) |-> Escaped(s[i])])

\* URL.EscapedPath of a URL without RawPath
EscapedPath(url) == IF url.path = <<"*">> THEN url.path ELSE escape(url.path, encodePath)

\* The query of URL.RequestURI and URL.String: RawQuery as it is
QuerySuffix(url) == IF url.rawQuery = <<>> THEN <<>> ELSE <<"?">> \o url.rawQuery

\* URL.RequestURI: the escaped path, "/" for an empty one, and the query
RequestURI(url) ==
    (IF EscapedPath(url) = <<>> THEN <<"/">> ELSE EscapedPath(url)) \o QuerySuffix(url)

\* URL.String of a URL with a host: the path is not completed with "/" when
\* it is empty, and gets one in front when it does not start with one
URLString(url) ==
    (IF url.scheme = <<>> THEN <<>> ELSE url.scheme \o <<":">>) \o <<"/", "/">>
    \o escape(url.host, encodeHost)
    \o (IF EscapedPath(url) # <<>> /\ Head(EscapedPath(url)) # "/" THEN <<"/">> ELSE <<>>)
    \o EscapedPath(url) \o QuerySuffix(url)

\* Header.Get: the first value under the canonical name, or ""
HeaderGet(header, name) ==
    LET key == CanonicalMIMEHeaderKey(name)
    IN IF key \in DOMAIN header /\ header[key] # <<>> THEN header[key][1] ELSE <<>>

\* Header.Del: removes the canonical name
HeaderDel(header, name) ==
    [key \in DOMAIN header \ {CanonicalMIMEHeaderKey(name)} |-> header[key]]

\* Header.Add: appends a value under the canonical name
HeaderAdd(header, name, value) ==
    LET key == CanonicalMIMEHeaderKey(name)
    IN [k \in DOMAIN header \cup {key} |->
            IF k = key
            THEN (IF key \in DOMAIN header THEN header[key] ELSE <<>>) \o <<value>>
            ELSE header[k]]

(***************************************************************************)
(* Token extraction.  Each extractor returns [token, request]: the token   *)
(* ("" when the source has none) and the request as it leaves it.          *)
(***************************************************************************)
Bearer == <<"B", "e", "a", "r", "e", "r", " ">>

\* An extraction from the cookie that leaves the cookies as they are
extractTokenFromCookieKept(plugin, request) ==
    LET Named(cookie) == cookie.name = plugin.cookieName
        found == SelectSeq(request.cookies, Named)
    IN [token |-> IF found = <<>> THEN <<>> ELSE found[1].value, request |-> request]

\* extractTokenFromCookie
extractTokenFromCookie(plugin, request) ==
    LET Named(cookie) == cookie.name = plugin.cookieName
        Other(cookie) == cookie.name # plugin.cookieName
        found == SelectSeq(request.cookies, Named)
    IN IF found = <<>>
       THEN [token |-> <<>>, request |-> request]
       ELSE [token |-> found[1].value,
             request |-> IF plugin.forwardToken THEN request
                         ELSE [request EXCEPT !.cookies = SelectSeq(@, Other)]]

\* extractTokenFromHeader: the header is read under the configured name as
\* written, and deleted under its canonical form
extractTokenFromHeader(plugin, request) ==
    IF plugin.headerName \notin DOMAIN request.header
    THEN [token |-> <<>>, request |-> request]
    ELSE LET token == request.header[plugin.headerName][1]
             after == IF plugin.forwardToken THEN request
                      ELSE [request EXCEPT !.header = HeaderDel(@, plugin.headerName)]
         IN [token |-> IF Len(token) >= Len(Bearer)
                          /\ EqualFold(SubSeq(token, 1, Len(Bearer)), Bearer)
                       THEN SubSeq(token, Len(Bearer) + 1, Len(token))
                       ELSE token,
             request |-> after]

\* extractTokenFromQuery
\* query.Del and the re-encoding of the query into the URL and the RequestURI
RewriteQuery(request, rawQuery) ==
    [request EXCEPT !.url.rawQuery = rawQuery,
                    !.requestURI = RequestURI([request.url EXCEPT !.rawQuery = rawQuery])]

extractTokenFromQuery(plugin, request) ==
    LET Named(pair) == pair.key = plugin.parameterName
        found == SelectSeq(URLQuery(request.url), Named)
    IN IF found = <<>>
       THEN [token |-> <<>>, request |-> request]
       ELSE [token |-> found[1].value,
             request |-> IF plugin.forwardToken THEN request
                         ELSE RewriteQuery(request,
                                  QueryEncode(QueryDel(URLQuery(request.url),
                                                       plugin.parameterName)))]

\* extractToken: cookie, then header, then query parameter; `consulted` is
\* the sequence of the sources that were read
cookieSource(plugin, request) ==
    IF plugin.cookieName # <<>>
    THEN extractTokenFromCookie(plugin, request) @@ [consulted |-> <<"cookie">>]
    ELSE [token |-> <<>>, request |-> request, consulted |-> <<>>]

\* A header that is read whatever the cookie gave, and wins over it
headerSourceFirst(plugin, cookie) ==
    LET header == extractTokenFromHeader(plugin, cookie.request)
    IN IF plugin.headerName # <<>> /\ Len(header.token) # 0
       THEN header @@ [consulted |-> cookie.consulted \o <<"header">>]
       ELSE IF Len(cookie.token) = 0 /\ plugin.headerName # <<>>
       THEN header @@ [consulted |-> cookie.consulted \o <<"header">>]
       ELSE cookie

headerSource(plugin, cookie) ==
    IF Len(cookie.token) = 0 /\ plugin.headerName # <<>>
    THEN extractTokenFromHeader(plugin, cookie.request)
         @@ [consulted |-> cookie.consulted \o <<"header">>]
    ELSE cookie

querySource(plugin, header) ==
    IF Len(header.token) = 0 /\ plugin.parameterName # <<>>
    THEN extractTokenFromQuery(plugin, header.request)
         @@ [consulted |-> header.consulted \o <<"query">>]
    ELSE header

extractToken(plugin, request) ==
    querySource(plugin, headerSource(plugin, cookieSource(plugin, request)))

(***************************************************************************)
(* The key cache.  keys maps a key id to key material; issuerKeys maps a   *)
(* source (a key-set URL, or "internal" for the configured Secrets) to the *)
(* key set it supplied.  Key material is [kind, v]: a shared HMAC secret   *)
(* with its bytes, a public key with the base-64 text of its encoding, and *)
(* NoKey for nil.                                                          *)
(***************************************************************************)
NoKey == [kind |-> "nil", v |-> <<>>]
Internal == <<"i", "n", "t", "e", "r", "n", "a", "l">>
WellKnownJWKS == <<".", "w", "e", "l", "l", "-", "k", "n", "o", "w", "n", "/",
                   "j", "w", "k", "s", ".", "j", "s", "o", "n">>

\* []byte(raw), a shared HMAC secret
HMACKey(raw) == [kind |-> "hmac", v |-> raw]

\* A public key, "ecdsa" or "rsa"
PublicKey(kind, encoding) == [kind |-> kind, v |-> encoding]

\* The encodings of the two public keys of the tests' configurations
\* (jwt.go 1725-1727 and 1751-1755), line by line
ECPublicKeyLines ==
    << <<"M", "F", "k", "w", "E", "w", "Y", "H", "K", "o", "Z", "I", "z", "j", "0", "C", "A", "Q", "Y", "I", "K", "o", "Z", "I", "z", "j", "0", "D", "A", "Q", "c", "D", "Q", "g", "A", "E", "E", "7", "g", "F", "C", "o", "/", "g", "2", "P", "Q", "m", "C", "3", "i", "5", "k", "I", "q", "V", "g", "C", "C", "z", "r", "2", "D", "1">>,
       <<"n", "b", "C", "e", "i", "p", "q", "f", "v", "K", "1", "r", "k", "q", "m", "K", "f", "h", "b", "7", "r", "l", "V", "e", "h", "f", "C", "7", "I", "T", "U", "A", "y", "8", "N", "I", "v", "Q", "/", "A", "s", "X", "C", "l", "v", "g", "H", "D", "v", "5", "5", "B", "f", "O", "o", "L", "6", "w", "=", "=">> >>

RSAPublicKeyLines ==
    << <<"M", "I", "G", "f", "M", "A", "0", "G", "C", "S", "q", "G", "S", "I", "b", "3", "D", "Q", "E", "B", "A", "Q", "U", "A", "A", "4", "G", "N", "A", "D", "C", "B", "i", "Q", "K", "B", "g", "Q", "D", "X", "m", "K", "e", "N", "K", "X", "/", "I", "R", "W", "e", "N", "c", "D", "6", "L", "Q", "j", "A", "W", "W", "O", "A", "Z">>,
       <<"S", "q", "n", "L", "C", "b", "j", "o", "0", "k", "Q", "x", "X", "S", "7", "h", "Z", "b", "8", "S", "L", "e", "0", "3", "v", "o", "g", "a", "p", "S", "v", "9", "L", "d", "6", "C", "o", "c", "s", "0", "a", "F", "j", "f", "k", "z", "b", "r", "Q", "P", "d", "T", "s", "k", "o", "o", "A", "W", "f", "W", "r", "8", "Y", "q">>,
       <<"x", "2", "y", "2", "J", "Q", "T", "L", "h", "j", "x", "H", "p", "j", "p", "/", "n", "a", "p", "f", "5", "S", "L", "G", "9", "j", "b", "u", "0", "2", "j", "p", "g", "W", "S", "Y", "/", "Z", "k", "s", "/", "2", "1", "A", "R", "Q", "4", "m", "X", "S", "3", "T", "5", "O", "l", "X", "M", "J", "c", "9", "4", "B", "A", "/">>,
       <<"n", "T", "5", "7", "P", "U", "d", "l", "5", "5", "R", "W", "y", "Q", "J", "x", "m", "w", "I", "D", "A", "Q", "A", "B">> >>

\* The PEM text of a block of the given type
PEMBegin == <<"-", "-", "-", "-", "-", "B", "E", "G", "I", "N", " ">>
PEMEnd == <<"-", "-", "-", "-", "-", "E", "N", "D", " ">>
PEMDashes == <<"-", "-", "-", "-", "-">>
PEMText(type, lines) ==
    PEMBegin \o type \o PEMDashes \o <<"\n">>
    \o Concat([i \in DOMAIN lines |-> lines[i] \o <<"\n">>])
    \o PEMEnd \o type \o PEMDashes \o <<"\n">>

TypeEC == <<"E", "C", " ", "P", "U", "B", "L", "I", "C", " ", "K", "E", "Y">>
TypeRSA == <<"R", "S", "A", " ", "P", "U", "B", "L", "I", "C", " ", "K", "E", "Y">>
TypePublic == <<"P", "U", "B", "L", "I", "C", " ", "K", "E", "Y">>

\* The PEM texts that the model can decode, with the key each holds: the
\* two keys under their own type and under "PUBLIC KEY"
PublicKeys ==
    (PEMText(TypeEC, ECPublicKeyLines) :> PublicKey("ecdsa", Concat(ECPublicKeyLines)))
    @@ (PEMText(TypePublic, ECPublicKeyLines) :> PublicKey("ecdsa", Concat(ECPublicKeyLines)))
    @@ (PEMText(TypeRSA, RSAPublicKeyLines) :> PublicKey("rsa", Concat(RSAPublicKeyLines)))
    @@ (PEMText(TypePublic, RSAPublicKeyLines) :> PublicKey("rsa", Concat(RSAPublicKeyLines)))

\* The errors of jwt.ParseECPublicKeyFromPEM and jwt.ParseRSAPublicKeyFromPEM
ErrKeyMustBePEMEncoded == "invalid key: Key must be a PEM encoded PKCS1 or PKCS8 key"
ErrNotECPublicKey == "key is not a valid ECDSA public key"
ErrNotRSAPublicKey == "key is not a valid RSA public key"
\* The text has a PEM block that is none of PublicKeys
ErrKeyNotModelled == "key not modelled"

\* jwt.ParseECPublicKeyFromPEM (kind "ecdsa") and jwt.ParseRSAPublicKeyFromPEM
\* (kind "rsa"): [key, err].  A text without an END line has no PEM block.
ParsePublicKeyFromPEM(raw, kind) ==
    IF ~Contains(raw, PEMEnd)
    THEN [key |-> NoKey, err |-> ErrKeyMustBePEMEncoded]
    ELSE IF raw \notin DOMAIN PublicKeys
    THEN [key |-> NoKey, err |-> ErrKeyNotModelled]
    ELSE IF PublicKeys[raw].kind # kind
    THEN [key |-> NoKey,
          err |-> IF kind = "ecdsa" THEN ErrNotECPublicKey ELSE ErrNotRSAPublicKey]
    ELSE [key |-> PublicKeys[raw], err |-> ""]

\* setupKey: [key, err].  nil for "", the public key of a PEM text, which
\* under "PUBLIC KEY" is tried as an EC and then as an RSA key, and else the
\* text as a shared HMAC secret
setupKey(raw) ==
    LET isEC == HasPrefix(raw, PEMBegin \o TypeEC)
        isRSA == HasPrefix(raw, PEMBegin \o TypeRSA)
        isPublic == HasPrefix(raw, PEMBegin \o TypePublic)
    IN IF raw = <<>> THEN [key |-> NoKey, err |-> ""]
       ELSE IF (isEC \/ isPublic) /\ (ParsePublicKeyFromPEM(raw, "ecdsa").err = "" \/ isEC)
       THEN ParsePublicKeyFromPEM(raw, "ecdsa")
       ELSE IF isRSA \/ isPublic THEN ParsePublicKeyFromPEM(raw, "rsa")
       ELSE [key |-> HMACKey(raw), err |-> ""]

\* canonicalizeDomain: a trailing slash is added when there is none
canonicalizeDomain(domain) ==
    IF HasSuffix(domain, <<"/">>) THEN domain ELSE domain \o <<"/">>

\* A plugin that trusts every issuer
isValidIssuerAny(plugin, issuer) == TRUE

\* isValidIssuer: the issuer matches one of the configured patterns
isValidIssuer(plugin, issuer) ==
    \E i \in DOMAIN plugin.issuers : FnMatch(plugin.issuers[i], issuer)

\* Every key counts as issued
isIssuedKeyAlways(issuerKeys, keyID) == TRUE

\* isIssuedKey: some source's key set has the key id
isIssuedKey(issuerKeys, keyID) ==
    \E source \in DOMAIN issuerKeys : keyID \in DOMAIN issuerKeys[source]

\* A fetchKeys that never purges
purgeNothing(keys, issuerKeys) == keys

\* purgeKeys: the keys that no source's key set has are dropped
purgeKeys(keys, issuerKeys) ==
    [keyID \in { k \in DOMAIN keys : isIssuedKey(issuerKeys, k) } |-> keys[keyID]]

\* The URL fetchKeys requests first
configURL(issuer) ==
    issuer \o <<".", "w", "e", "l", "l", "-", "k", "n", "o", "w", "n", "/",
                "o", "p", "e", "n", "i", "d", "-", "c", "o", "n", "f", "i", "g", "u", "r", "a", "t", "i", "o", "n">>

\* A fetchKeys that ignores the discovery document
keySetURLWellKnown(issuer, discovery) == issuer \o WellKnownJWKS

\* The URL fetchKeys requests the key set from: the jwks_uri of the discovery
\* document, or the well-known location when the discovery request failed
keySetURL(issuer, discovery) ==
    IF discovery.ok THEN discovery.jwksURI ELSE issuer \o WellKnownJWKS

\* A fetchKeys that fails and forgets every key
fetchKeysForgetting(issuer, net, keys, issuerKeys) ==
    [err |-> TRUE, url |-> issuer, keys |-> EmptyMap, issuerKeys |-> EmptyMap]

\* fetchKeys(issuer) with the answers `net` of the network:
\*   net.discovery = [ok, jwksURI]   the openid-configuration request
\*   net.jwks = [ok, keys]           the key-set request (FetchJWKS)
\* [err, url, keys, issuerKeys]: err is TRUE when the key-set request fails
fetchKeys(issuer, net, keys, issuerKeys) ==
    LET url == keySetURL(issuer, net.discovery)
        jwks == net.jwks.keys
        merged == [keyID \in DOMAIN keys \cup DOMAIN jwks |->
                      IF keyID \in DOMAIN jwks THEN jwks[keyID] ELSE keys[keyID]]
        stored == [source \in DOMAIN issuerKeys \cup {url} |->
                      IF source = url THEN jwks ELSE issuerKeys[source]]
    IN IF ~net.jwks.ok
       THEN [err |-> TRUE, url |-> url, keys |-> keys, issuerKeys |-> issuerKeys]
       ELSE [err |-> FALSE, url |-> url,
             keys |-> purgeKeys(merged, stored), issuerKeys |-> stored]

\* A cache that never has the key
lookupMiss(cache, kid) == [ok |-> FALSE, key |-> NoKey]

\* A cache that has every kid, without a key
lookupNoKey(cache, kid) == [ok |-> TRUE, key |-> NoKey]

\* plugin.keys[kid]
lookup(cache, kid) ==
    IF kid \in DOMAIN cache THEN [ok |-> TRUE, key |-> cache[kid]]
    ELSE [ok |-> FALSE, key |-> NoKey]

\* The result of getKey: [panic, err, key, fetched, fetchErr, lookups, hit].
\* err is the error returned ("" for nil) and key the key returned (NoKey
\* for nil); fetched is the sequence of the issuers fetchKeys was called
\* for and fetchErr whether it returned an error; lookups counts the reads
\* of the cache and hit is whether the last of them found the kid; panic is
\* the failed type assertion kid.(string).  This one is the result of a
\* getKey that was not called.
KeyResult ==
    [panic |-> FALSE, err |-> "", key |-> NoKey, fetched |-> <<>>,
     fetchErr |-> FALSE, lookups |-> 0, hit |-> FALSE]

ErrNoSecret == "no secret configured"
ErrIssuerNotValid == "issuer is not valid"
ErrFetch == "failed to fetch keys"

(***************************************************************************)
(* Tokens.  The parser (golang-jwt, jwt.Parser.Parse) decodes the text of  *)
(* a token into its header and claims, checks the signing method, asks     *)
(* getKey for the key, verifies the signature and validates the registered *)
(* time claims, in that order.  The signature primitive is a capability:   *)
(* a token verifies under the key material it was signed for and under no  *)
(* other.  A decoded token is [wellformed, header, claims, signedWith].    *)
(***************************************************************************)
\* The registered time claims: exp (now < exp) and nbf (now >= nbf), each a
\* number when present (iat is not verified: the parser is built without
\* WithIssuedAt)
TimeClaimsValid(claims, now) ==
    /\ "exp" \in DOMAIN claims =>
          /\ claims["exp"].t = "num"
          /\ now < NumericDate(claims["exp"].v)
    /\ "nbf" \in DOMAIN claims =>
          /\ claims["nbf"].t = "num"
          /\ now >= NumericDate(claims["nbf"].v)

\* The parser calls getKey for a token that decodes and whose signing method
\* is one of the valid methods
callsGetKey(plugin, decoded) ==
    decoded.wellformed /\ decoded.header["alg"].v \in plugin.parser.validMethods

\* plugin.parser.Parse(token, plugin.getKey), `key` being what getKey
\* returns when the parser calls it: [panic, err, key], err being "" for a
\* valid token and key the result of getKey (of no call, when the parser
\* fails before it asks for the key)
ParseWithKey(plugin, decoded, now, notCalled, key) ==
    IF ~decoded.wellformed
    THEN [panic |-> FALSE, err |-> "token is malformed", key |-> notCalled]
    ELSE IF decoded.header["alg"].v \notin plugin.parser.validMethods
    THEN [panic |-> FALSE, err |-> "signing method is invalid", key |-> notCalled]
    ELSE IF key.panic
    THEN [panic |-> TRUE, err |-> "", key |-> key]
    ELSE [panic |-> FALSE,
          err |-> IF key.err # "" THEN "token is unverifiable"
                  ELSE IF key.key # decoded.signedWith THEN "signature is invalid"
                  ELSE IF ~TimeClaimsValid(decoded.claims, now)
                  THEN "token has invalid claims"
                  ELSE "",
          key |-> key]

(***************************************************************************)
(* The text of a claim value on a forwarded header.                        *)
(***************************************************************************)
\* strconv.Itoa for n >= 0
RECURSIVE Itoa(_)
Itoa(n) ==
    IF n < Len(DigitChars) THEN <<DigitChars[n + 1]>>
    ELSE Itoa(n \div Len(DigitChars)) \o <<DigitChars[(n % Len(DigitChars)) + 1]>>

\* The literal text a json.Number holds
NumberText(lit) ==
    (IF lit.neg THEN <<"-">> ELSE <<>>) \o Itoa(lit.whole)
    \o (IF lit.frac = <<>> THEN <<>>
        ELSE <<".">> \o [i \in DOMAIN lit.frac |-> DigitChars[lit.frac[i] + 1]])

\* encoding/json's string encoding as Marshal does it: the quote and the
\* backslash behind a backslash, the control characters by their names, and
\* the characters '<', '>' and '&' of HTML by their code points
JSONStringChar(c) ==
    CASE c = "\"" -> <<"\\", "\"">>
      [] c = "\\" -> <<"\\", "\\">>
      [] c = "\n" -> <<"\\", "n">>
      [] c = "\r" -> <<"\\", "r">>
      [] c = "\t" -> <<"\\", "t">>
      [] c = "\f" -> <<"\\", "f">>
      [] c = "<" -> <<"\\", "u", "0", "0", "3", "c">>
      [] c = ">" -> <<"\\", "u", "0", "0", "3", "e">>
      [] c = "&" -> <<"\\", "u", "0", "0", "2", "6">>
      [] OTHER -> <<c>>

JSONString(s) == <<"\"">> \o Concat([i \in 1..Len(s) |-> JSONStringChar(s[i])]) \o <<"\"">>

\* The parts of a sequence of strings joined by commas
RECURSIVE JoinComma(_)
JoinComma(parts) ==
    IF parts = <<>> THEN <<>>
    ELSE Head(parts) \o (IF Len(parts) > 1 THEN <<",">> ELSE <<>>) \o JoinComma(Tail(parts))

\* json.Marshal of a claim value: the keys of an object sorted
RECURSIVE JSONMarshal(_)
JSONMarshal(value) ==
    CASE value.t = "str" -> JSONString(value.v)
      [] value.t = "num" -> NumberText(value.v)
      [] value.t = "bool" -> IF value.v THEN <<"t", "r", "u", "e">>
                             ELSE <<"f", "a", "l", "s", "e">>
      [] value.t = "nil" -> <<"n", "u", "l", "l">>
      [] value.t = "arr" ->
            <<"[">> \o JoinComma([i \in DOMAIN value.v |-> JSONMarshal(value.v[i])]) \o <<"]">>
      [] value.t = "obj" ->
            LET keys == SortStrings(DOMAIN value.v)
            IN <<"{">>
               \o JoinComma([i \in DOMAIN keys |->
                     JSONString(keys[i]) \o <<":">> \o JSONMarshal(value.v[keys[i]])])
               \o <<"}">>

\* The header value of a claim: arrays, objects and null as JSON, the other
\* values as fmt.Sprint prints them
ClaimHeaderValue(value) ==
    CASE value.t \in {"arr", "obj", "nil"} -> JSONMarshal(value)
      [] value.t = "str" -> value.v
      [] value.t = "num" -> NumberText(value.v)
      [] value.t = "bool" -> IF value.v THEN <<"t", "r", "u", "e">>
                             ELSE <<"f", "a", "l", "s", "e">>

\* The loop of mapClaimsToHeaders over the entries of headerMap in the order
\* `names`: the header of the request after the projection of the claims
RECURSIVE MapClaims(_, _, _, _)
MapClaims(plugin, claims, header, names) ==
    IF names = <<>> THEN header
    ELSE LET name == Head(names)
             claim == plugin.headerMap[name]
             next == IF claim \in DOMAIN claims
                     THEN HeaderAdd(header, name, ClaimHeaderValue(claims[claim]))
                     ELSE IF plugin.removeMissingHeaders
                     THEN HeaderDel(header, name)
                     ELSE header
         IN MapClaims(plugin, claims, next, Tail(names))

\* mapClaimsToHeaders, headerMap ranged over in the order `order` (the order
\* of a range over a Go map is not specified, and differs between calls)
mapClaimsToHeaders(plugin, claims, request, order) ==
    [request EXCEPT !.header = MapClaims(plugin, claims, @, order)]

(***************************************************************************)
(* The tokens of the model: the texts that decode to a token, with the     *)
(* header and the claims they carry and the key material their signature   *)
(* verifies under.  Every other text is malformed.                         *)
(***************************************************************************)
HS256 == <<"H", "S", "2", "5", "6">>
ClaimTest == <<"t", "e", "s", "t">>
ClaimOther == <<"o", "t", "h", "e", "r">>
ClaimAdmin == <<"a", "d", "m", "i", "n">>
Issuer1 == <<"h", "t", "t", "p", "s", ":", "/", "/", "i", "1">>
IssuerEvil == <<"h", "t", "t", "p", "s", ":", "/", "/", "e", "v", "i", "l">>
Kid0 == <<"k", "0">>
Kid1 == <<"k", "1">>

Header(kid) == [alg |-> Str(HS256), kid |-> kid]
HeaderNoKid == [alg |-> Str(HS256)]

JWTs == {
    \* signed with the fixed secret, no kid
    [raw |-> <<"t", ".", "o", "k">>, header |-> HeaderNoKid, signedWith |-> HMACKey(<<"S">>),
     claims |-> [aud |-> Str(ClaimTest)]],
    [raw |-> <<"t", ".", "r", "o", "l", "e", "s">>, header |-> HeaderNoKid, signedWith |-> HMACKey(<<"S">>),
     claims |-> [aud |-> Str(ClaimTest), roles |-> Arr(<<Str(ClaimOther), Str(ClaimAdmin)>>)]],
    [raw |-> <<"t", ".", "o", "t", "h", "e", "r">>, header |-> HeaderNoKid, signedWith |-> HMACKey(<<"S">>),
     claims |-> [aud |-> Str(ClaimOther)]],
    [raw |-> <<"t", ".", "i", "a", "t">>, header |-> HeaderNoKid, signedWith |-> HMACKey(<<"S">>),
     claims |-> [aud |-> Str(ClaimOther), iat |-> Num(1, <<>>)]],
    [raw |-> <<"t", ".", "i", "a", "t", "f", "r", "a", "c">>, header |-> HeaderNoKid, signedWith |-> HMACKey(<<"S">>),
     claims |-> [aud |-> Str(ClaimOther), iat |-> Num(1, <<5>>)]],
    [raw |-> <<"t", ".", "i", "a", "t", "s", "t", "r">>, header |-> HeaderNoKid, signedWith |-> HMACKey(<<"S">>),
     claims |-> [aud |-> Str(ClaimOther), iat |-> Str(<<"1">>)]],
    [raw |-> <<"t", ".", "n", "o", "a", "u", "d">>, header |-> HeaderNoKid, signedWith |-> HMACKey(<<"S">>),
     claims |-> [sub |-> Str(ClaimTest)]],
    [raw |-> <<"t", ".", "n", "o", "a", "u", "d", "i", "a", "t">>, header |-> HeaderNoKid, signedWith |-> HMACKey(<<"S">>),
     claims |-> [sub |-> Str(ClaimTest), iat |-> Num(1, <<>>)]],
    [raw |-> <<"t", ".", "e", "x", "p">>, header |-> HeaderNoKid, signedWith |-> HMACKey(<<"S">>),
     claims |-> [aud |-> Str(ClaimTest), exp |-> Num(2, <<>>)]],
    [raw |-> <<"t", ".", "n", "o", "a", "u", "d", "i", "a", "t", "s", "t", "r">>, header |-> HeaderNoKid, signedWith |-> HMACKey(<<"S">>),
     claims |-> [sub |-> Str(ClaimTest), iat |-> Str(<<"1">>)]],
    \* an unsecured token
    [raw |-> <<"t", ".", "n", "o", "n", "e">>, header |-> [alg |-> Str(<<"n", "o", "n", "e">>)], signedWith |-> NoKey,
     claims |-> [aud |-> Str(ClaimTest)]],
    \* signed with a key nobody configured
    [raw |-> <<"t", ".", "b", "a", "d", "s", "i", "g">>, header |-> HeaderNoKid, signedWith |-> HMACKey(<<"X">>),
     claims |-> [aud |-> Str(ClaimTest)]],
    \* a kid that is a number, not a string
    [raw |-> <<"t", ".", "k", "i", "d", "n", "u", "m">>, header |-> Header(Num(5, <<>>)), signedWith |-> HMACKey(<<"S">>),
     claims |-> [aud |-> Str(ClaimTest)]],
    \* signed with the statically configured key k0
    [raw |-> <<"t", ".", "k", "0">>, header |-> Header(Str(Kid0)), signedWith |-> HMACKey(<<"K", "0">>),
     claims |-> [aud |-> Str(ClaimTest)]],
    \* signed with the key k1 of the trusted issuer
    [raw |-> <<"t", ".", "k", "1">>, header |-> Header(Str(Kid1)), signedWith |-> PublicKey("rsa", <<"K", "1">>),
     claims |-> [aud |-> Str(ClaimTest), iss |-> Str(Issuer1)]],
    \* signed with the key k1 of an issuer that is not trusted
    [raw |-> <<"t", ".", "e", "v", "i", "l">>, header |-> Header(Str(Kid1)), signedWith |-> PublicKey("rsa", <<"K", "1">>),
     claims |-> [aud |-> Str(ClaimTest), iss |-> Str(IssuerEvil)]]
}

\* The tokens of the requirement checks: signed with the fixed secret, each
\* with one value of the claim "authority"
AuthorityClaims == <<
    [authority |-> Str(<<"*", ".", "e", "x", "a", "m", "p", "l", "e", ".", "c", "o", "m">>)],
    [authority |-> Str(<<"t", "e", "s", "t", ".", "e", "x", "a", "m", "p", "l", "e", ".", "c", "o", "m">>)],
    [authority |-> Str(<<"e", "x", "a", "m", "p", "l", "e", ".", "c", "o", "m">>)],
    [authority |-> Str(<<"*", ".", "c", "o", "m", "p", "a", "n", "y", ".", "c", "o", "m">>)],
    [authority |-> Arr(<<Str(<<"*", ".", "e", "x", "a", "m", "p", "l", "e", ".", "c", "o", "m">>), Str(<<"o", "t", "h", "e", "r", ".", "e", "x", "a", "m", "p", "l", "e", ".", "c", "o", "m">>)>>)],
    [authority |-> Arr(<<Str(<<"*", ".", "c", "o", "m", "p", "a", "n", "y", ".", "c", "o", "m">>), Str(<<"o", "t", "h", "e", "r", ".", "e", "x", "a", "m", "p", "l", "e", ".", "c", "o", "m">>)>>)],
    [authority |-> Obj(<<"*", ".", "e", "x", "a", "m", "p", "l", "e", ".", "c", "o", "m">> :> Str(<<"u", "s", "e", "r">>))],
    [authority |-> Obj(<<"*", ".", "e", "x", "a", "m", "p", "l", "e", ".", "c", "o", "m">> :> Arr(<<Str(<<"u", "s", "e", "r">>), Str(<<"a", "d", "m", "i", "n">>)>>))],
    [authority |-> Obj(<<"*", ".", "e", "x", "a", "m", "p", "l", "e", ".", "c", "o", "m">> :> Arr(<<Str(<<"o", "t", "h", "e", "r">>), Str(<<"a", "d", "m", "i", "n">>)>>))],
    [authority |-> Obj(<<"*", ".", "e", "x", "a", "m", "p", "l", "e", ".", "c", "o", "m">> :> Str(<<"g", "u", "e", "s", "t">>))],
    [authority |-> Obj(<<"*", ".", "e", "x", "a", "m", "p", "l", "e", ".", "c", "o", "m">> :> Arr(<<Str(<<"u", "s", "e", "r">>), Str(<<"g", "u", "e", "s", "t">>)>>))],
    [authority |-> Obj(<<"*", ".", "e", "x", "a", "m", "p", "l", "e", ".", "c", "o", "m">> :> Nil)],
    [authority |-> Obj(<<"*", ".", "c", "o", "m", "p", "a", "n", "y", ".", "c", "o", "m">> :> Arr(<<Str(<<"u", "s", "e", "r">>), Str(<<"a", "d", "m", "i", "n">>)>>))],
    [authority |-> Arr(<<Str(<<"x">>), Str(<<"y">>)>>)],
    [authority |-> Obj(<<"k">> :> Str(<<"v">>))],
    [authority |-> Arr(<<>>)],
    [authority |-> Obj(EmptyMap)],
    [authority |-> Nil],
    [authority |-> Str(<<"a", "p", "p">>)],
    [authority |-> Str(<<"e", "u">>)],
    [authority |-> Str(<<"*">>)],
    [authority |-> Str(<<"*">>), iat |-> Num(1, <<>>)],
    [authority |-> Str(<<"*">>), iat |-> Num(1, <<5>>)],
    [authority |-> Str(<<"*">>), iat |-> Str(<<"1">>)] >>

RequireJWTs ==
    { [raw |-> <<"a", ".">> \o Itoa(i), header |-> HeaderNoKid, signedWith |-> HMACKey(<<"S">>),
       claims |-> AuthorityClaims[i]] : i \in DOMAIN AuthorityClaims }

\* The token a text decodes to: [wellformed, header, claims, signedWith]
DecodeFound(found) ==
    IF found = {}
    THEN [wellformed |-> FALSE, header |-> EmptyMap, claims |-> EmptyMap,
          signedWith |-> NoKey]
    ELSE LET jwt == CHOOSE jwt \in found : TRUE
         IN [wellformed |-> TRUE, header |-> jwt.header, claims |-> jwt.claims,
             signedWith |-> jwt.signedWith]

Decode(raw) == DecodeFound({ jwt \in JWTs \cup RequireJWTs : jwt.raw = raw })

(***************************************************************************)
(* validate.                                                               *)
(***************************************************************************)
StatusOK == 200
StatusFound == 302
StatusUnauthorized == 401
StatusForbidden == 403
StatusInternalServerError == 500

\* allowRefresh: [panic, allow]; the type assertion iat.(json.Number)
\* panics for an iat that is not a number
allowRefresh(plugin, claims, now) ==
    IF plugin.freshness = 0 \/ "iat" \notin DOMAIN claims
    THEN [panic |-> FALSE, allow |-> FALSE]
    ELSE IF claims["iat"].t # "num"
    THEN [panic |-> TRUE, allow |-> FALSE]
    ELSE LET value == NumberInt64(claims["iat"].v)
         IN [panic |-> FALSE,
             allow |-> value.ok /\ now - value.value > plugin.freshness]

\* A request without a token that is let through only if no claim is required
withoutTokenUnlessRequired(plugin, base) ==
    IF ~plugin.optional \/ DOMAIN plugin.require # {}
    THEN [base EXCEPT !.status = StatusUnauthorized, !.err = "no token provided"]
    ELSE base

\* validate without a token: allowed under optional, Unauthorized otherwise
withoutToken(plugin, base) ==
    IF ~plugin.optional
    THEN [base EXCEPT !.status = StatusUnauthorized, !.err = "no token provided"]
    ELSE base

\* A validate that lets a token the parser rejects through under optional
validateParsedOptional(plugin, extracted, claims, variables, now, notCalled, parse, order) ==
    LET base == [panic |-> FALSE, status |-> StatusOK, err |-> "",
                 request |-> extracted.request, extracted |-> extracted,
                 parse |-> [panic |-> FALSE, err |-> "", key |-> notCalled],
                 claimsValid |-> FALSE]
        refresh == allowRefresh(plugin, claims, now)
    IN IF extracted.token = <<>>
       THEN withoutToken(plugin, base)
       ELSE IF parse.panic
       THEN [base EXCEPT !.panic = TRUE, !.parse = parse]
       ELSE IF parse.err # "" /\ plugin.optional
       THEN [base EXCEPT !.parse = parse]
       ELSE IF parse.err # ""
       THEN [base EXCEPT !.status = StatusUnauthorized, !.err = parse.err, !.parse = parse]
       ELSE IF ~validateClaims(plugin.require, claims, variables)
       THEN IF refresh.panic
            THEN [base EXCEPT !.panic = TRUE, !.parse = parse]
            ELSE [base EXCEPT !.status = IF refresh.allow THEN StatusUnauthorized
                                         ELSE StatusForbidden,
                              !.err = "claim is not present or not valid",
                              !.parse = parse]
       ELSE [base EXCEPT !.parse = parse, !.claimsValid = TRUE,
                         !.request = mapClaimsToHeaders(plugin, claims, extracted.request, order)]

\* validate, once the token is extracted, decoded and parsed.
\* [panic, status, err, request, extracted, parse, claimsValid]:
\*   status, err   what validate returns (err "" for nil)
\*   request       the request as validate leaves it
\*   extracted     the result of extractToken
\*   parse         the result of parser.Parse (of no call, without a token)
\*   claimsValid   validateClaims returned nil
validateParsed(plugin, extracted, claims, variables, now, notCalled, parse, order) ==
    LET base == [panic |-> FALSE, status |-> StatusOK, err |-> "",
                 request |-> extracted.request, extracted |-> extracted,
                 parse |-> [panic |-> FALSE, err |-> "", key |-> notCalled],
                 claimsValid |-> FALSE]
        refresh == allowRefresh(plugin, claims, now)
    IN IF extracted.token = <<>>
       THEN withoutToken(plugin, base)
       ELSE IF parse.panic
       THEN [base EXCEPT !.panic = TRUE, !.parse = parse]
       ELSE IF parse.err # ""
       THEN [base EXCEPT !.status = StatusUnauthorized, !.err = parse.err, !.parse = parse]
       ELSE IF ~validateClaims(plugin.require, claims, variables)
       THEN IF refresh.panic
            THEN [base EXCEPT !.panic = TRUE, !.parse = parse]
            ELSE [base EXCEPT !.status = IF refresh.allow THEN StatusUnauthorized
                                         ELSE StatusForbidden,
                              !.err = "claim is not present or not valid",
                              !.parse = parse]
       ELSE [base EXCEPT !.parse = parse, !.claimsValid = TRUE,
                         !.request = mapClaimsToHeaders(plugin, claims, extracted.request, order)]

\* validate from the parser's call on: `decoded` is the token that the
\* extracted text decodes to
validateDecoded(plugin, extracted, decoded, variables, now, notCalled, key, order) ==
    validateParsed(plugin, extracted, decoded.claims, variables, now, notCalled,
                   ParseWithKey(plugin, decoded, now, notCalled, key), order)

\* validate after extractToken
validateExtracted(plugin, extracted, variables, now, notCalled, key, order) ==
    validateDecoded(plugin, extracted, Decode(extracted.token), variables,
                    now, notCalled, key, order)

\* validate; `key` is what getKey returns to the parser (`notCalled` when
\* the parser does not ask) and `order` the order in which headerMap is
\* ranged over
validate(plugin, request, variables, now, notCalled, key, order) ==
    validateExtracted(plugin, extractToken(plugin, request), variables,
                      now, notCalled, key, order)

(***************************************************************************)
(* ServeHTTP.                                                              *)
(***************************************************************************)
VarMethod == <<"M", "e", "t", "h", "o", "d">>
VarHost == <<"H", "o", "s", "t">>
VarPath == <<"P", "a", "t", "h">>
VarScheme == <<"S", "c", "h", "e", "m", "e">>
VarURL == <<"U", "R", "L">>
XForwardedProto == <<"X", "-", "F", "o", "r", "w", "a", "r", "d", "e", "d", "-", "P", "r", "o", "t", "o">>
ContentType == <<"C", "o", "n", "t", "e", "n", "t", "-", "T", "y", "p", "e">>
ApplicationGRPC == <<"a", "p", "p", "l", "i", "c", "a", "t", "i", "o", "n", "/", "g", "r", "p", "c">>
GRPCStatus == <<"G", "r", "p", "c", "-", "S", "t", "a", "t", "u", "s">>
GRPCMessage == <<"G", "r", "p", "c", "-", "M", "e", "s", "s", "a", "g", "e">>
Location == <<"L", "o", "c", "a", "t", "i", "o", "n">>
Unauthenticated == <<"U", "N", "A", "U", "T", "H", "E", "N", "T", "I", "C", "A", "T", "E", "D">>
PermissionDenied == <<"P", "E", "R", "M", "I", "S", "S", "I", "O", "N", "_",
                      "D", "E", "N", "I", "E", "D">>
XContentTypeOptions == <<"X", "-", "C", "o", "n", "t", "e", "n", "t", "-", "T", "y", "p", "e", "-", "O", "p", "t", "i", "o", "n", "s">>
TextPlain == <<"t", "e", "x", "t", "/", "p", "l", "a", "i", "n", ";", " ", "c", "h", "a", "r", "s", "e", "t", "=", "u", "t", "f", "-", "8">>
TextHTML == <<"t", "e", "x", "t", "/", "h", "t", "m", "l", ";", " ", "c", "h", "a", "r", "s", "e", "t", "=", "u", "t", "f", "-", "8">>
NoSniff == <<"n", "o", "s", "n", "i", "f", "f">>

\* The headers http.Error sets
ErrorHeader == (ContentType :> TextPlain) @@ (XContentTypeOptions :> NoSniff)

\* NewTemplateVariables: the environment, overwritten with the request's
\* Method, Host, Path, Scheme and URL
requestScheme(request, forwarded) ==
    IF request.url.host # <<>> THEN request.url.scheme
    ELSE IF forwarded = <<>> THEN <<"h", "t", "t", "p", "s">>
    ELSE forwarded

templateVariables(plugin, request, path, scheme) ==
    (VarMethod :> request.method) @@ (VarHost :> request.host)
    @@ (VarPath :> path) @@ (VarScheme :> scheme)
    @@ (VarURL :> IF request.url.host # <<>> THEN URLString(request.url)
                  ELSE scheme \o <<":", "/", "/">> \o request.host \o path)
    @@ plugin.environment

NewTemplateVariables(plugin, request) ==
    templateVariables(plugin, request, RequestURI(request.url),
                      requestScheme(request, HeaderGet(request.header, XForwardedProto)))

\* An expansion that never fails: an undefined variable expands to nothing
expandTemplateIgnoringErrors(template, variables) == [ok |-> TRUE, text |-> <<>>]

\* expandTemplate: [ok, text]
expandTemplate(template, variables) == ExecuteTemplate(template.parts, variables)

\* A boundary test that does not know the plus of a structured syntax suffix
isTokenBoundaryNoPlus(character) == character \in {" ", ",", "\t"}

\* isTokenBoundary
isTokenBoundary(character) == character \in {" ", ",", "\t", "+"}

\* hasToken: the header contains the token, whatever the case, between
\* token boundaries
hasToken(header, token) ==
    IF Len(token) > Len(header) \/ token = <<>> THEN FALSE
    ELSE IF header = token THEN TRUE
    ELSE \E start \in 1..(Len(header) - Len(token) + 1) :
            LET end == start + Len(token) - 1
            IN /\ header[start] = token[1] \/ ToLower(header[start]) = token[1]
               /\ start > 1 => isTokenBoundary(header[start - 1])
               /\ end # Len(header) => isTokenBoundary(header[end + 1])
               /\ EqualFold(SubSeq(header, start, end), token)

\* The response before the handler writes to it: code 0 is "nothing sent"
NoResponse ==
    [code |-> 0, header |-> EmptyMap, body |-> "", bodyArguments |-> <<>>, nextCalls |-> 0,
     presentation |-> "none"]

\* The unauthorized template for every failure
redirectTemplateUnauthorized(plugin, status) == plugin.redirectUnauthorized

\* The template ServeHTTP redirects to
redirectTemplate(plugin, status) ==
    IF status = StatusUnauthorized \/ plugin.redirectForbidden.nil
    THEN plugin.redirectUnauthorized
    ELSE plugin.redirectForbidden

\* url.Parse finds a scheme in the URL: a letter, then letters, digits, '+',
\* '-' and '.', and a colon
HasScheme(url) ==
    \E i \in 2..Len(url) :
        /\ url[i] = ":"
        /\ IsLetter(url[1])
        /\ \A j \in 2..(i - 1) : IsLetter(url[j]) \/ IsDigit(url[j]) \/ url[j] \in {"+", "-", "."}

\* The body http.Redirect writes for a GET, %s being bodyArguments[1]
RedirectBody == "<a href=\"%s\">Found</a>.\n\n"

MethodGet == <<"G", "E", "T">>
MethodHead == <<"H", "E", "A", "D">>
MethodPost == <<"P", "O", "S", "T">>

\* http.Redirect(response, request, url, http.StatusFound) on a response
\* without Content-Type: the Location, for a GET and a HEAD the Content-Type,
\* and for a GET the body, an anchor with the escaped URL.  A URL with a
\* scheme is sent as it is; one without is made absolute against the path
\* of the request, which the model leaves out ("relative").
Redirect(request, url) ==
    IF ~HasScheme(url) THEN [NoResponse EXCEPT !.code = StatusFound, !.presentation = "relative"]
    ELSE [NoResponse EXCEPT
             !.code = StatusFound,
             !.header = (Location :> url)
                        @@ (IF request.method \in {MethodGet, MethodHead}
                            THEN (ContentType :> TextHTML) ELSE EmptyMap),
             !.body = IF request.method = MethodGet THEN RedirectBody ELSE "",
             !.bodyArguments = IF request.method = MethodGet THEN <<HTMLEscape(url)>> ELSE <<>>,
             !.presentation = "redirect"]

\* The failure branch of ServeHTTP: a redirect (http.Redirect), the
\* gRPC headers or an error body (http.Error).  Nothing is written on the
\* gRPC branch, so the code is the 200 that the server sends for a handler
\* that returns without writing.
Failure(plugin, request, variables, status, err) ==
    LET url == expandTemplate(redirectTemplate(plugin, status), variables)
    IN IF ~plugin.redirectUnauthorized.nil
       THEN IF ~url.ok
            THEN [NoResponse EXCEPT !.code = StatusInternalServerError,
                                    !.header = ErrorHeader,
                                    !.body = "template error",
                                    !.presentation = "internal"]
            ELSE Redirect(request, url.text)
       ELSE IF hasToken(HeaderGet(request.header, ContentType), ApplicationGRPC)
       THEN [NoResponse EXCEPT
                !.code = StatusOK,
                !.header = (ContentType :> ApplicationGRPC)
                    @@ (IF status = StatusUnauthorized
                        THEN (GRPCStatus :> <<"1", "6">>) @@ (GRPCMessage :> Unauthenticated)
                        ELSE IF status = StatusForbidden
                        THEN (GRPCStatus :> <<"7">>) @@ (GRPCMessage :> PermissionDenied)
                        ELSE EmptyMap),
                !.presentation = "grpc"]
       ELSE [NoResponse EXCEPT !.code = status, !.header = ErrorHeader, !.body = err,
                               !.presentation = "error"]

\* A handler that calls the next handler after it has answered a failure
RespondThenNext(plugin, variables, result) ==
    [result |-> result,
     response |->
        IF result.panic THEN [NoResponse EXCEPT !.presentation = "panic"]
        ELSE IF result.err = ""
        THEN [NoResponse EXCEPT !.code = StatusOK, !.nextCalls = 1,
                                !.presentation = "next"]
        ELSE [Failure(plugin, result.request, variables, result.status, result.err)
                EXCEPT !.nextCalls = 1]]

\* ServeHTTP: [result, response].  result is what validate did; response is
\* what the client receives.  The next handler answers 200.  A panic leaves
\* the handler without a response and without a call of the next handler.
Respond(plugin, variables, result) ==
    [result |-> result,
     response |->
        IF result.panic THEN [NoResponse EXCEPT !.presentation = "panic"]
        ELSE IF result.err = ""
        THEN [NoResponse EXCEPT !.code = StatusOK, !.nextCalls = 1,
                                !.presentation = "next"]
        ELSE Failure(plugin, result.request, variables, result.status, result.err)]

ServeWith(plugin, request, variables, now, notCalled, key, order) ==
    Respond(plugin, variables,
            validate(plugin, request, variables, now, notCalled, key, order))

Serve(plugin, request, now, notCalled, key, order) ==
    ServeWith(plugin, request, NewTemplateVariables(plugin, request),
              now, notCalled, key, order)

(***************************************************************************)
(* Construction.                                                           *)
(***************************************************************************)
Authorization == <<"A", "u", "t", "h", "o", "r", "i", "z", "a", "t", "i", "o", "n">>
\* The signing methods CreateConfig accepts
ValidMethods ==
    { <<"R", "S", "2", "5", "6">>,
      <<"R", "S", "3", "8", "4">>,
      <<"R", "S", "5", "1", "2">>,
      <<"E", "S", "2", "5", "6">>,
      <<"E", "S", "3", "8", "4">>,
      <<"E", "S", "5", "1", "2">>,
      HS256,
      <<"H", "S", "3", "8", "4">>,
      <<"H", "S", "5", "1", "2">> }

\* CreateConfig: the default configuration
CreateConfig ==
    [ValidMethods |-> ValidMethods, Issuers |-> <<>>, InsecureSkipVerify |-> <<>>,
     RootCAs |-> <<>>, Secret |-> <<>>, Secrets |-> EmptyMap,
     Require |-> EmptyMap, Optional |-> FALSE,
     RedirectUnauthorized |-> <<>>, RedirectForbidden |-> <<>>,
     CookieName |-> Authorization, HeaderName |-> Authorization, ParameterName |-> <<>>,
     HeaderMap |-> EmptyMap, RemoveMissingHeaders |-> FALSE, ForwardToken |-> TRUE,
     Freshness |-> 3600,
     SkipPrefetch |-> FALSE, DelayPrefetch |-> <<>>, RefreshKeysInterval |-> <<>>]

\* NewTemplate: nil for an empty text, else the template parsed with the
\* functions URLQueryEscape and HTMLEscape; [nil, err, parts], err being the
\* reason why template.Must panics ("": it does not)
NewTemplate(text) ==
    IF text = <<>> THEN [nil |-> TRUE, err |-> "", parts |-> <<>>]
    ELSE [nil |-> FALSE] @@ ParseTemplate(text, TemplateFunctions)

\* internalIssuerKeys: the key set of the source "internal"
internalIssuerKeys(secrets) == [kid \in DOMAIN secrets |-> NoKey]

\* The environment variables of the process
Environment ==
    (<<"R", "E", "G", "I", "O", "N">> :> <<"e", "u">>) @@ (VarHost :> <<"e", "n", "v">>)

(***************************************************************************)
(* Durations.  A time.Duration is an int64 of nanoseconds; the model       *)
(* writes it as [neg, ns], ns being the decimal digits of its magnitude,   *)
(* most significant first and without leading zeros (<<>> is zero).        *)
(***************************************************************************)
\* The digit a decimal character stands for
DigitOf(c) == CHOOSE d \in 0..9 : DigitChars[d + 1] = c

\* The digits of a text of decimal characters
DigitsOf(text) == [i \in DOMAIN text |-> DigitOf(text[i])]

\* A sequence of digits without its leading zeros
Decimal(digits) ==
    LET zeros == CHOOSE n \in 0..Len(digits) :
                    /\ \A i \in 1..n : digits[i] = 0
                    /\ n = Len(digits) \/ digits[n + 1] # 0
    IN SubSeq(digits, zeros + 1, Len(digits))

\* a < b
DecimalLess(a, b) ==
    \/ Len(a) < Len(b)
    \/ /\ Len(a) = Len(b)
       /\ \E i \in DOMAIN a : a[i] < b[i] /\ \A j \in 1..(i - 1) : a[j] = b[j]

\* a * n + carry, for a small n
RECURSIVE DecimalTimes(_, _, _)
DecimalTimes(a, n, carry) ==
    IF a = <<>> THEN Decimal(<<carry \div 10, carry % 10>>)
    ELSE LET last == a[Len(a)] * n + carry
         IN DecimalTimes(SubSeq(a, 1, Len(a) - 1), n, last \div 10) \o <<last % 10>>

\* a + b + carry
RECURSIVE DecimalSum(_, _, _)
DecimalSum(a, b, carry) ==
    IF a = <<>> /\ b = <<>> THEN Decimal(<<carry>>)
    ELSE LET x == IF a = <<>> THEN 0 ELSE a[Len(a)]
             y == IF b = <<>> THEN 0 ELSE b[Len(b)]
         IN DecimalSum(SubSeq(a, 1, Len(a) - 1), SubSeq(b, 1, Len(b) - 1),
                       (x + y + carry) \div 10) \o <<(x + y + carry) % 10>>

\* a - 1, for a > 0
RECURSIVE DecimalBefore(_)
DecimalBefore(a) ==
    IF a[Len(a)] > 0 THEN Decimal([a EXCEPT ![Len(a)] = @ - 1])
    ELSE DecimalBefore(SubSeq(a, 1, Len(a) - 1)) \o <<9>>

\* a * 10^zeros
DecimalShift(a, zeros) == IF a = <<>> THEN <<>> ELSE a \o [i \in 1..zeros |-> 0]

\* 1<<63
TwoTo63 == <<9, 2, 2, 3, 3, 7, 2, 0, 3, 6, 8, 5, 4, 7, 7, 5, 8, 0, 8>>

\* The Duration of n nanoseconds, for a small n
Nanoseconds(n) ==
    [neg |-> n < 0,
     ns |-> Decimal([i \in 1..10 |-> ((IF n < 0 THEN -n ELSE n) \div (10 ^ (10 - i))) % 10])]

\* unitMap of package time: a unit is factor * 10^zeros nanoseconds (the two
\* spellings of the microsecond with a Greek letter are outside the
\* alphabet of the model)
unitMap ==
    (<<"n", "s">> :> [factor |-> 1, zeros |-> 0])
    @@ (<<"u", "s">> :> [factor |-> 1, zeros |-> 3])
    @@ (<<"m", "s">> :> [factor |-> 1, zeros |-> 6])
    @@ (<<"s">> :> [factor |-> 1, zeros |-> 9])
    @@ (<<"m">> :> [factor |-> 6, zeros |-> 10])
    @@ (<<"h">> :> [factor |-> 36, zeros |-> 11])

ErrInvalidDuration == "time: invalid duration %q"
ErrMissingUnit == "time: missing unit in duration %q"
ErrUnknownUnit == "time: unknown unit %q in duration %q"
ErrDurationNotModelled == "duration not modelled"

\* The number of decimal characters that s starts with
leadingInt(s) ==
    CHOOSE n \in 0..Len(s) :
        /\ \A i \in 1..n : IsDigit(s[i])
        /\ n = Len(s) \/ ~IsDigit(s[n + 1])

\* The number of characters of the unit that s starts with: those before the
\* next '.' or digit
leadingUnit(s) ==
    CHOOSE n \in 0..Len(s) :
        /\ \A i \in 1..n : ~(s[i] = "." \/ IsDigit(s[i]))
        /\ n = Len(s) \/ s[n + 1] = "." \/ IsDigit(s[n + 1])

\* What float64(f) * (float64(unit) / scale) adds for the fraction digits f:
\* nothing for f = 0, and the exact f * unit / 10^Len(f) when the division is
\* exact, the product being below 2^53 then.  [ok, value]; a fraction with
\* more digits than the unit has decimal zeros takes the rounding of the
\* floating-point division and product, which the model does not follow.
durationFraction(f, unit) ==
    IF Decimal(f) = <<>> THEN [ok |-> TRUE, value |-> <<>>]
    ELSE IF Len(f) > unit.zeros THEN [ok |-> FALSE, value |-> <<>>]
    ELSE [ok |-> TRUE,
          value |-> DecimalShift(DecimalTimes(Decimal(f), unit.factor, 0),
                                 unit.zeros - Len(f))]

\* time.ParseDuration returns errors.New("time: invalid duration " + quote(orig))
durationInvalid(orig) == [err |-> ErrInvalidDuration, arguments |-> <<orig>>, d |-> <<>>]

\* The loop of time.ParseDuration over the groups of s ([0-9]*(\.[0-9]*)?
\* and a unit), d being the sum so far: [err, arguments, d]
RECURSIVE durationGroups(_, _, _)

\* d += v, with `sum` the exact d + v: an error above 1<<63
durationSum(orig, rest, sum) ==
    IF DecimalLess(TwoTo63, sum) THEN durationInvalid(orig)
    ELSE durationGroups(orig, rest, sum)

\* The value v of a group is known: an error above 1<<63, else d += v, which
\* wraps to 0 in a uint64 when both are 1<<63
durationAdd(orig, rest, d, value) ==
    IF DecimalLess(TwoTo63, value) THEN durationInvalid(orig)
    ELSE IF d = TwoTo63 /\ value = TwoTo63 THEN durationGroups(orig, rest, <<>>)
    ELSE durationSum(orig, rest, DecimalSum(d, value, 0))

\* v *= unit (`whole`, an error above 1<<63) and the fraction is added
durationValue(orig, rest, d, whole, fraction) ==
    IF DecimalLess(TwoTo63, whole) THEN durationInvalid(orig)
    ELSE IF ~fraction.ok
    THEN [err |-> ErrDurationNotModelled, arguments |-> <<>>, d |-> <<>>]
    ELSE durationAdd(orig, rest, d, DecimalSum(whole, fraction.value, 0))

\* The unit u of a group with the number v and the fraction digits f
durationUnit(orig, rest, d, v, f, u) ==
    IF u = <<>> THEN [err |-> ErrMissingUnit, arguments |-> <<orig>>, d |-> <<>>]
    ELSE IF u \notin DOMAIN unitMap
    THEN [err |-> ErrUnknownUnit, arguments |-> <<u, orig>>, d |-> <<>>]
    ELSE durationValue(orig, rest, d,
                       DecimalShift(DecimalTimes(v, unitMap[u].factor, 0), unitMap[u].zeros),
                       durationFraction(f, unitMap[u]))

\* The text s after the fraction starts with a unit of i characters
durationSplitUnit(orig, d, v, f, s, i) ==
    durationUnit(orig, SubSeq(s, i + 1, Len(s)), d, v, f, SubSeq(s, 1, i))

\* The number v has `pre` digits and the text s after the '.', if there is
\* one, starts with `post` digits of fraction
durationAfterDot(orig, d, pre, v, s, post) ==
    IF DecimalLess(TwoTo63, v) THEN durationInvalid(orig)
    ELSE IF pre = 0 /\ post = 0 THEN durationInvalid(orig)
    ELSE durationSplitUnit(orig, d, v, DigitsOf(SubSeq(s, 1, post)),
                           SubSeq(s, post + 1, Len(s)),
                           leadingUnit(SubSeq(s, post + 1, Len(s))))

\* The text s after the number: a '.' and the digits of the fraction, or
\* the unit at once
durationAfterInt(orig, d, pre, v, s) ==
    IF s # <<>> /\ s[1] = "."
    THEN durationAfterDot(orig, d, pre, v, Tail(s), leadingInt(Tail(s)))
    ELSE durationAfterDot(orig, d, pre, v, s, 0)

\* The group starts with `pre` digits
durationNumber(orig, s, d, pre) ==
    durationAfterInt(orig, d, pre, Decimal(DigitsOf(SubSeq(s, 1, pre))),
                     SubSeq(s, pre + 1, Len(s)))

durationGroups(orig, s, d) ==
    IF s = <<>> THEN [err |-> "", arguments |-> <<>>, d |-> d]
    ELSE IF ~(s[1] = "." \/ IsDigit(s[1])) THEN durationInvalid(orig)
    ELSE durationNumber(orig, s, d, leadingInt(s))

\* The end of time.ParseDuration: the sum of the groups with its sign, an
\* error when it does not fit
durationResult(s, neg, groups) ==
    IF groups.err # ""
    THEN [err |-> groups.err, arguments |-> groups.arguments, value |-> Nanoseconds(0)]
    ELSE IF neg
    THEN [err |-> "", arguments |-> <<>>,
          value |-> [neg |-> groups.d # <<>>, ns |-> groups.d]]
    ELSE IF ~DecimalLess(groups.d, TwoTo63)
    THEN [err |-> ErrInvalidDuration, arguments |-> <<s>>, value |-> Nanoseconds(0)]
    ELSE [err |-> "", arguments |-> <<>>, value |-> [neg |-> FALSE, ns |-> groups.d]]

\* time.ParseDuration after the sign: "0" without a unit, the empty text,
\* or the groups
durationSigned(s, neg, body) ==
    IF body = <<"0">> THEN [err |-> "", arguments |-> <<>>, value |-> Nanoseconds(0)]
    ELSE IF body = <<>>
    THEN [err |-> ErrInvalidDuration, arguments |-> <<s>>, value |-> Nanoseconds(0)]
    ELSE durationResult(s, neg, durationGroups(s, body, <<>>))

\* time.ParseDuration: [err, arguments, value], err being "" for nil and
\* arguments what fills the %q of err
ParseDuration(s) ==
    IF s # <<>> /\ s[1] \in {"-", "+"} THEN durationSigned(s, s[1] = "-", Tail(s))
    ELSE durationSigned(s, FALSE, s)

\* parseDuration: 0 for the empty string, else time.ParseDuration
parseDuration(duration) ==
    IF duration = <<>> THEN [err |-> "", arguments |-> <<>>, value |-> Nanoseconds(0)]
    ELSE ParseDuration(duration)

\* The sentinel of New for "no prefetch"
NoPrefetch == Nanoseconds(-1)

\* New, from "Set up the prefetch and refresh intervals" on, with the two
\* durations parsed
routineArguments(skipPrefetch, delay, interval) ==
    IF ~skipPrefetch /\ delay.err # ""
    THEN [err |-> "invalid delayPrefetch: " \o delay.err, arguments |-> delay.arguments,
          delayPrefetch |-> Nanoseconds(0), refreshKeysInterval |-> Nanoseconds(0)]
    ELSE IF interval.err # ""
    THEN [err |-> "invalid refreshKeysInterval: " \o interval.err,
          arguments |-> interval.arguments,
          delayPrefetch |-> Nanoseconds(0), refreshKeysInterval |-> Nanoseconds(0)]
    ELSE [err |-> "", arguments |-> <<>>,
          delayPrefetch |-> IF skipPrefetch THEN NoPrefetch ELSE delay.value,
          refreshKeysInterval |-> interval.value]

\* New, from "Set up the prefetch and refresh intervals" on: the error (its
\* %q filled with `arguments`), or the arguments that fetchRoutine is started
\* with
fetchRoutineArguments(config) ==
    routineArguments(config.SkipPrefetch, parseDuration(config.DelayPrefetch),
                     parseDuration(config.RefreshKeysInterval))

\* The files of the host, by path
RootCAFile == <<"t", "e", "s", "t", "i", "n", "g", "/", "r", "o", "o", "t", "c", "a", ".", "p", "e", "m">>
Files == (RootCAFile :> <<"-", "-", "-", "-", "-", "B", "E", "G", "I", "N", " ", "C", "E", "R", "T", "I", "F", "I", "C", "A", "T", "E", "-", "-", "-", "-", "-">> \o <<"\n">>)

\* pemContent: [content, err, path].  A text that is empty or starts as a PEM
\* is the content itself, any other is the path of a file to read
ErrNoSuchFile == "open %s: no such file or directory"
pemContent(value) ==
    IF value = <<>> \/ HasPrefix(value, <<"-", "-", "-", "-", "-", "B", "E", "G", "I", "N">>)
    THEN [content |-> value, err |-> ""]
    ELSE IF value \in DOMAIN Files THEN [content |-> Files[value], err |-> ""]
    ELSE [content |-> <<>>, err |-> ErrNoSuchFile]

\* A New that returns an error (panic FALSE) or panics in template.Must
Failed(err, arguments, panic) == [err |-> err, errArguments |-> arguments, panic |-> panic]

\* The arguments of the goroutine that New starts
fetchRoutine(delayPrefetch, refreshKeysInterval) ==
    [delayPrefetch |-> delayPrefetch, refreshKeysInterval |-> refreshKeysInterval]

\* New with the Secrets ranged over in the order `kids`.  The result is an
\* error [err, errArguments] (errArguments fill the %s of err), a panic of
\* template.Must, or [plugin, keys, issuerKeys, routine]: the plugin, its
\* two maps and the fetchRoutine that `go` has started.
New(config, kids) ==
    LET secret == setupKey(config.Secret)
        rootCAs == [i \in DOMAIN config.RootCAs |-> pemContent(config.RootCAs[i])]
        unread == { i \in DOMAIN rootCAs : rootCAs[i].err # "" }
        require == convertRequire(config.Require)
        redirectUnauthorized == NewTemplate(config.RedirectUnauthorized)
        redirectForbidden == NewTemplate(config.RedirectForbidden)
        templates == (UNION { { require[claim][i].err : i \in DOMAIN require[claim] } :
                                claim \in DOMAIN require })
                     \cup { redirectUnauthorized.err, redirectForbidden.err }
        secrets == [kid \in DOMAIN config.Secrets |-> setupKey(config.Secrets[kid])]
        unusable == { i \in DOMAIN kids :
                        secrets[kids[i]].err # "" \/ secrets[kids[i]].key = NoKey }
        first == CHOOSE i \in unusable : \A j \in unusable : i <= j
        arguments == fetchRoutineArguments(config)
    IN IF secret.err # "" THEN Failed(secret.err, <<>>, FALSE)
       ELSE IF unread # {}
       THEN Failed("failed to load root CA: " \o ErrNoSuchFile,
                   <<config.RootCAs[CHOOSE i \in unread : \A j \in unread : i <= j]>>, FALSE)
       ELSE IF ErrNotModelled \in templates THEN Failed(ErrNotModelled, <<>>, FALSE)
       ELSE IF templates \ {""} # {} THEN Failed("", <<>>, TRUE)
       ELSE IF unusable # {}
       THEN Failed("kid %s: " \o (IF secrets[kids[first]].err # "" THEN secrets[kids[first]].err
                                  ELSE "invalid key: Key is empty"),
                   <<kids[first]>>, FALSE)
       ELSE IF arguments.err # "" THEN Failed(arguments.err, arguments.arguments, FALSE)
       ELSE
    [err |-> "", errArguments |-> <<>>, panic |-> FALSE,
     plugin |->
        [parser |-> [validMethods |-> config.ValidMethods, useJSONNumber |-> TRUE],
         secret |-> secret.key,
         issuers |-> [i \in DOMAIN config.Issuers |-> canonicalizeDomain(config.Issuers[i])],
         clients |-> { config.InsecureSkipVerify[i] : i \in DOMAIN config.InsecureSkipVerify },
         defaultClient |-> [rootCAs |-> [i \in DOMAIN rootCAs |-> rootCAs[i].content]],
         require |-> require,
         optional |-> config.Optional,
         redirectUnauthorized |-> redirectUnauthorized,
         redirectForbidden |-> redirectForbidden,
         cookieName |-> config.CookieName,
         headerName |-> config.HeaderName,
         parameterName |-> config.ParameterName,
         headerMap |-> config.HeaderMap,
         removeMissingHeaders |-> config.RemoveMissingHeaders,
         forwardToken |-> config.ForwardToken,
         freshness |-> config.Freshness,
         environment |-> Environment],
     keys |-> [kid \in DOMAIN config.Secrets |-> secrets[kid].key],
     issuerKeys |-> (Internal :> internalIssuerKeys(config.Secrets)),
     routine |-> fetchRoutine(arguments.delayPrefetch, arguments.refreshKeysInterval)]

(***************************************************************************)
(* The configurations, requests and network answers of the model.          *)
(***************************************************************************)
RedirectLogin == <<"h", "t", "t", "p", "s", ":", "/", "/", "x", "/", "l", "o", "g", "i", "n", "?", "r", "=", "{", "{", "U", "R", "L", "Q", "u", "e", "r", "y", "E", "s", "c", "a", "p", "e", " ", ".", "U", "R", "L", "}", "}">>
RedirectDenied == <<"h", "t", "t", "p", "s", ":", "/", "/", "x", "/", "d", "e", "n", "i", "e", "d">>
RedirectBad == <<"h", "t", "t", "p", "s", ":", "/", "/", "x", "/", "{", "{", ".", "U", "n", "k", "n", "o", "w", "n", "}", "}">>

\* A refresh interval: fetchRoutine calls fetchAllKeys again and again
EveryNanosecond == <<"1", "n", "s">>

\* The key material configured: a fixed secret, statically configured keys
\* and trusted issuers
KeySetups ==
    { [Secret |-> <<"S">>, Secrets |-> EmptyMap, Issuers |-> <<>>],
      [Secret |-> <<>>, Secrets |-> (Kid0 :> <<"K", "0">>), Issuers |-> <<Issuer1>>],
      [Secret |-> <<"S">>, Secrets |-> EmptyMap, Issuers |-> <<Issuer1>>] }

Requires ==
    { EmptyMap,
      [aud |-> Str(ClaimTest)],
      [aud |-> Arr(<<Str(ClaimTest), Str(<<"x">>)>>), roles |-> Str(ClaimAdmin)],
      [aud |-> Arr(<<>>)] }

Redirects ==
    { << <<>>, <<>> >>, <<RedirectLogin, <<>> >>, <<RedirectLogin, RedirectDenied>>,
      <<RedirectLogin, RedirectBad>>, <<RedirectBad, RedirectDenied>> }

PipelineConfigs ==
    { [CreateConfig EXCEPT !.Optional = optional, !.Freshness = freshness,
                           !.Require = require,
                           !.RedirectUnauthorized = redirect[1],
                           !.RedirectForbidden = redirect[2],
                           !.Secret = setup.Secret, !.Secrets = setup.Secrets,
                           !.Issuers = setup.Issuers, !.RefreshKeysInterval = EveryNanosecond] :
        optional \in BOOLEAN, freshness \in {0, 1}, require \in Requires,
        redirect \in Redirects, setup \in KeySetups }

\* http.NewRequest for the URL https://app/home with the query `rawQuery`:
\* the URL has its scheme and host, and the RequestURI is empty
NewRequest(method, path, rawQuery, header, cookies) ==
    [method |-> method, host |-> <<"a", "p", "p">>,
     url |-> [scheme |-> <<"h", "t", "t", "p", "s">>, host |-> <<"a", "p", "p">>, path |-> path,
              rawQuery |-> rawQuery],
     requestURI |-> <<>>, header |-> header, cookies |-> cookies]

\* The same request as a server reads it from the connection: the URL has the
\* path and the query only, and the RequestURI is the target as it was sent
ServerRequest(request) ==
    [request EXCEPT !.url.scheme = <<>>, !.url.host = <<>>,
                    !.requestURI = EscapedPath(request.url) \o QuerySuffix(request.url)]

\* The same request with the host of its URL removed (the tests' action
\* traefikURL)
TraefikRequest(request) == [request EXCEPT !.url.host = <<>>]

\* A GET of https://app/home with the given headers, cookies and query
Request(header, cookies, rawQuery) ==
    NewRequest(MethodGet, <<"/", "h", "o", "m", "e">>, rawQuery, header, cookies)

TokenTexts == { jwt.raw : jwt \in JWTs } \cup { <<"g", "a", "r", "b", "a", "g", "e">> }

PipelineRequests ==
    { Request(authorization @@ contentType, <<>>, <<>>) :
        authorization \in { EmptyMap }
            \cup { (Authorization :> <<Bearer \o text>>) : text \in TokenTexts },
        contentType \in { EmptyMap, (ContentType :> << <<"a", "p", "p", "l", "i", "c", "a", "t", "i", "o", "n", "/", "g", "r", "p", "c", "+", "p", "r", "o", "t", "o">> >>) } }

\* The answers of the network to one fetchKeys: the discovery request fails
\* or names a key-set URL; the key-set request fails or returns a key set
JWKSURI1 == <<"h", "t", "t", "p", "s", ":", "/", "/", "i", "1", "/", "k", "e", "y", "s">>
DiscoveryFails == [ok |-> FALSE, jwksURI |-> <<>>]
JWKSFails == [ok |-> FALSE, keys |-> EmptyMap]
\* The answers to the discovery request and to the key-set request
Discoveries == { DiscoveryFails, [ok |-> TRUE, jwksURI |-> JWKSURI1] }
KeySets == { EmptyMap, (Kid1 :> PublicKey("rsa", <<"K", "1">>)) }
JWKSAnswers == { JWKSFails } \cup { [ok |-> TRUE, keys |-> set] : set \in KeySets }

(***************************************************************************)
(* The state machine.                                                      *)
(***************************************************************************)
\* plugin.lock, a sync.RWMutex: the number of read locks granted and not
\* yet released, the wake-ups on readerSem that no reader has taken yet,
\* whether the write lock is held, and whether a writer has announced
\* itself.  Lock() takes the mutex rw.w, which one writer at a time holds
\* from there to the end of its Unlock(), announces the writer and waits
\* until the read locks granted by then are released; RLock() returns at
\* once unless a writer is announced (a writer that still waits for rw.w
\* keeps no reader out), and then it waits on readerSem; Unlock() grants a
\* read lock for every reader that waits and releases as many wake-ups on
\* readerSem, which any reader that waits there takes, in a step of its
\* own, whether it came before that Unlock() or after it
Unlocked == [readers |-> 0, sem |-> 0, writer |-> FALSE, announced |-> FALSE]

\* The goroutines: two that serve requests and the refresher of fetchRoutine
Requester == "r1"
Requesters == {Requester, "r2"}
Refresher == "bg"
Goroutines == Requesters \cup {Refresher}

\* A goroutine outside getKey and fetchAllKeys
Idle == [pc |-> "idle"]

VARIABLES
    plugin,       \* the JWTPlugin as New built it (never assigned afterwards)
    keys,         \* plugin.keys
    issuerKeys,   \* plugin.issuerKeys
    now,          \* time.Now().Unix()
    pc,           \* "served" from the return of a ServeHTTP to the delivery, else "idle"
    served,       \* the request that ServeHTTP handled, what validate did and the response
    lock,         \* plugin.lock, a sync.RWMutex
    routine,      \* the arguments of the fetchRoutine that New started
    goroutines    \* the goroutines inside getKey and fetchAllKeys, step by step

vars == <<plugin, keys, issuerKeys, now, pc, served, lock, routine, goroutines>>

\* New has returned `created`: the state is the plugin, its maps and its
\* fetchRoutine; an error or a panic of New starts no plugin
ConstructedAs(created) ==
    /\ created.err = ""
    /\ ~created.panic
    /\ plugin = created.plugin
    /\ keys = created.keys
    /\ issuerKeys = created.issuerKeys
    /\ routine = created.routine

\* New has returned the plugin of `config`, its Secrets ranged over in the
\* order `kids`
ConstructedFrom(config, kids) == ConstructedAs(New(config, kids))

\* New has returned the plugin of one of `configs`
Constructed(configs) ==
    \E config \in configs :
        \E kids \in Orders(DOMAIN config.Secrets) : ConstructedFrom(config, kids)

InitWith(configs) ==
    /\ Constructed(configs)
    /\ now = 1
    /\ pc = "idle"
    /\ served = <<>>
    /\ lock = Unlocked
    /\ goroutines = [g \in Goroutines |-> Idle]

Init == InitWith(PipelineConfigs)

\* The leaked read locks the model follows (a goroutine that panics between
\* RLock and RUnlock never releases its read lock)
MaxLeaks == 1

\* fetchRoutine as New starts it; left is the time the current Sleep has yet
\* to last.  skipPrefetch, prefetches and odd are history: the option of the
\* configuration, the calls of fetchAllKeys made as the prefetch, and
\* whether the number of calls made in the loop is odd
Started(arguments, skipPrefetch) ==
    [pc |-> "start", left |-> <<>>,
     delayPrefetch |-> arguments.delayPrefetch,
     refreshKeysInterval |-> arguments.refreshKeysInterval,
     skipPrefetch |-> skipPrefetch, prefetches |-> 0, odd |-> FALSE]

\* The fields of fetchRoutine, which the goroutine keeps inside fetchAllKeys
RoutineFields ==
    {"pc", "left", "delayPrefetch", "refreshKeysInterval", "skipPrefetch", "prefetches", "odd"}

\* time.Sleep(duration): a duration that is not positive is over at once
sleep(state, at, duration) ==
    [state EXCEPT !.pc = at, !.left = IF duration.neg THEN <<>> ELSE duration.ns]

\* The loop of fetchRoutine, or its end
refreshLoop(state) ==
    IF state.refreshKeysInterval # Nanoseconds(0)
    THEN sleep(state, "refresh", state.refreshKeysInterval)
    ELSE [state EXCEPT !.pc = "done"]

\* A goroutine inside getKey(token), or inside fetchAllKeys with the issuers
\* `todo` still to fetch.  err and key are the values getKey returns, issuer,
\* discovery and jwks the locals of fetchKeys, requests the URLs requested,
\* lookups and fetches the reads of the cache and the calls of fetchKeys, hit
\* whether the last lookup found the kid, before the cache as fetchKeys
\* found it when it took the write lock.  overtakers and lost are history
\* of a goroutine that holds a key set it has yet to store: the goroutines
\* that have received a key set of the same source since, and whether one
\* of them has stored since.  request is the request of the ServeHTTP that
\* called getKey and fetchErr whether its fetchKeys returned an error.
NoRequest == <<>>

Running(at, token, todo) ==
    [pc |-> at, token |-> token, todo |-> todo, looped |-> FALSE,
     err |-> ErrNoSecret, key |-> NoKey, issuer |-> <<>>,
     discovery |-> DiscoveryFails, jwks |-> EmptyMap, requests |-> <<>>,
     lookups |-> 0, fetches |-> 0, hit |-> FALSE, before |-> <<>>,
     overtakers |-> {}, lost |-> FALSE, request |-> NoRequest, fetchErr |-> FALSE]

NoToken == [header |-> EmptyMap, claims |-> EmptyMap]

\* The end of getKey: the fixed secret, or the error so far
fallback(plugin_, state) ==
    IF plugin_.secret = NoKey
    THEN [state EXCEPT !.pc = "returned"]
    ELSE [state EXCEPT !.pc = "returned", !.key = plugin_.secret, !.err = ""]

\* The read locks no live goroutine will release: those granted, less those
\* of the goroutines at the lookup and those whose wake-up is yet to be taken
Leaked ==
    lock.readers - lock.sem
        - Cardinality({ g \in Goroutines : goroutines[g].pc = "lookup" })

\* getKey up to its first RLock, or to its end when it reaches none (len of
\* plugin.keys is read without the lock)
getKeyEntered(plugin_, keys_, token) ==
    IF (Len(plugin_.issuers) > 0 \/ DOMAIN keys_ # {}) /\ "kid" \in DOMAIN token.header
    THEN Running("rlock", token, <<>>)
    ELSE fallback(plugin_, Running("returned", token, <<>>))

\* What getKey has returned, as a KeyResult
getKeyReturned(state) ==
    [panic |-> state.pc = "panicked",
     err |-> IF state.pc = "panicked" THEN "" ELSE state.err,
     key |-> state.key,
     fetched |-> [i \in 1..state.fetches |-> state.issuer],
     fetchErr |-> state.fetchErr, lookups |-> state.lookups, hit |-> state.hit]

\* A request enters getKey
GoGetKey(g, token) ==
    /\ g \in Requesters
    /\ goroutines[g].pc = "idle"
    /\ ("kid" \in DOMAIN token.header /\ token.header["kid"].t # "str") => Leaked < MaxLeaks
    /\ goroutines' = [goroutines EXCEPT ![g] = getKeyEntered(plugin, keys, token)]
    /\ UNCHANGED <<plugin, routine, keys, issuerKeys, now, pc, served, lock>>

\* An RLock that does not block behind the writer
GoRLockUnguarded(g) ==
    /\ goroutines[g].pc = "rlock"
    /\ lock' = [lock EXCEPT !.readers = @ + 1]
    /\ goroutines' = [goroutines EXCEPT ![g].pc = "lookup"]
    /\ UNCHANGED <<plugin, routine, keys, issuerKeys, now, pc, served>>

\* plugin.lock.RLock(): with no writer announced it returns with a read
\* lock of its own; with a writer announced the goroutine waits on
\* readerSem, at "rwait", and returns when it takes a wake-up from it, be
\* it one that an Unlock() released for a reader that has waited longer
GoRLock(g) ==
    /\ goroutines[g].pc \in {"rlock", "rwait"}
    /\ IF goroutines[g].pc = "rwait"
       THEN /\ lock.sem > 0
            /\ lock' = [lock EXCEPT !.sem = @ - 1]
            /\ goroutines' = [goroutines EXCEPT ![g].pc = "lookup"]
       ELSE IF lock.announced
       THEN /\ goroutines' = [goroutines EXCEPT ![g].pc = "rwait"]
            /\ UNCHANGED lock
       ELSE /\ lock' = [lock EXCEPT !.readers = @ + 1]
            /\ goroutines' = [goroutines EXCEPT ![g].pc = "lookup"]
    /\ UNCHANGED <<plugin, routine, keys, issuerKeys, now, pc, served>>

\* The statements of getKey from the lookup to the next operation on the lock
\* or the network: the lookup (whose kid.(string) panics for a kid that is no
\* string), RUnlock, and the way out of the loop or into fetchKeys
afterLookup(plugin_, state, found) ==
    LET read == [state EXCEPT !.lookups = @ + 1]
        claims == state.token.claims
        issuer == canonicalizeDomain(claims["iss"].v)
    IN IF found.ok
       THEN [read EXCEPT !.pc = "returned", !.key = found.key, !.err = "", !.hit = TRUE]
       ELSE IF state.looped
       THEN fallback(plugin_, read)
       ELSE IF ~("iss" \in DOMAIN claims /\ claims["iss"].t = "str")
       THEN fallback(plugin_, read)
       ELSE IF isValidIssuer(plugin_, issuer)
       THEN [read EXCEPT !.pc = "discovery", !.issuer = issuer, !.fetches = @ + 1]
       ELSE [read EXCEPT !.pc = "rlock", !.looped = TRUE, !.err = ErrIssuerNotValid]

GoLookup(g) ==
    /\ goroutines[g].pc = "lookup"
    /\ LET kid == goroutines[g].token.header["kid"]
       IN IF kid.t # "str"
          THEN /\ goroutines' = [goroutines EXCEPT ![g].pc = "panicked"]
               /\ UNCHANGED lock
          ELSE /\ goroutines' = [goroutines EXCEPT ![g] =
                                    afterLookup(plugin, goroutines[g], lookup(keys, kid.v))]
               /\ lock' = [lock EXCEPT !.readers = @ - 1]
    /\ UNCHANGED <<plugin, routine, keys, issuerKeys, now, pc, served>>

\* fetchKeys requests the discovery document
GoDiscovery(g, answer) ==
    /\ goroutines[g].pc = "discovery"
    /\ goroutines' = [goroutines EXCEPT ![g].pc = "jwks", ![g].discovery = answer,
                                        ![g].requests = Append(@, configURL(goroutines[g].issuer))]
    /\ UNCHANGED <<plugin, routine, keys, issuerKeys, now, pc, served, lock>>

\* A fetchAllKeys that gives the cycle up at the first issuer that fails
afterFetchAbort(state, err) ==
    IF state.token = NoToken
    THEN [state EXCEPT !.pc = "next", !.err = err, !.before = <<>>, !.jwks = EmptyMap,
                       !.todo = IF err = "" THEN @ ELSE <<>>]
    ELSE [state EXCEPT !.pc = "rlock", !.looped = TRUE, !.err = err, !.before = <<>>,
                       !.jwks = EmptyMap]

\* A getKey that forgets that it has fetched and fetches again after the
\* next miss
afterFetchRetrying(state, err) ==
    IF state.token = NoToken
    THEN [state EXCEPT !.pc = "next", !.err = err, !.before = <<>>, !.jwks = EmptyMap]
    ELSE [state EXCEPT !.pc = "rlock", !.err = err, !.before = <<>>,
                       !.jwks = EmptyMap, !.fetchErr = err # ""]

\* fetchKeys returned to getKey, or to fetchAllKeys
afterFetch(state, err) ==
    IF state.token = NoToken
    THEN [state EXCEPT !.pc = "next", !.err = err, !.before = <<>>, !.jwks = EmptyMap]
    ELSE [state EXCEPT !.pc = "rlock", !.looped = TRUE, !.err = err, !.before = <<>>,
                       !.jwks = EmptyMap, !.fetchErr = err # ""]

\* The goroutines that hold a key set of the source, received and not yet
\* stored
Holding(url) ==
    { h \in Goroutines :
        /\ goroutines[h].pc \in {"lock", "locking"}
        /\ keySetURL(goroutines[h].issuer, goroutines[h].discovery) = url }

\* The goroutines as g's store of a key set for the source leaves them: g at
\* `at`, and those that hold an older key set of the source have lost
Storing(g, url, at) ==
    [h \in Goroutines |->
        IF h = g THEN [goroutines[g] EXCEPT !.pc = at]
        ELSE IF h \in Holding(url) /\ g \in goroutines[h].overtakers
        THEN [goroutines[h] EXCEPT !.lost = TRUE]
        ELSE goroutines[h]]

\* fetchKeys requests the key set, and returns the error when that fails
GoJWKS(g, answer) ==
    /\ goroutines[g].pc = "jwks"
    /\ LET url == keySetURL(goroutines[g].issuer, goroutines[g].discovery)
           state == [goroutines[g] EXCEPT !.requests = Append(@, url)]
       IN goroutines' =
             IF answer.ok
             THEN [h \in Goroutines |->
                     IF h = g
                     THEN [state EXCEPT !.pc = "lock", !.jwks = answer.keys,
                                        !.overtakers = {}, !.lost = FALSE]
                     ELSE IF h \in Holding(url)
                     THEN [goroutines[h] EXCEPT !.overtakers = @ \cup {g}]
                     ELSE goroutines[h]]
             ELSE [goroutines EXCEPT ![g] = afterFetch(state, ErrFetch)]
    /\ UNCHANGED <<plugin, routine, keys, issuerKeys, now, pc, served, lock>>

\* plugin.lock.Lock() up to its wait for the readers: the goroutine gets
\* rw.w, which no other writer holds, and announces itself, so that a reader
\* that calls RLock() from now on waits on readerSem
GoLockWait(g) ==
    /\ goroutines[g].pc = "lock"
    /\ ~lock.announced
    /\ lock' = [lock EXCEPT !.announced = TRUE]
    /\ goroutines' = [goroutines EXCEPT ![g].pc = "locking"]
    /\ UNCHANGED <<plugin, routine, keys, issuerKeys, now, pc, served>>

\* Lock() returns, every read lock granted before the writer announced
\* itself having been released, and fetchKeys stores the key set and purges
GoStore(g) ==
    /\ goroutines[g].pc = "locking"
    /\ lock.readers = 0
    /\ lock' = [lock EXCEPT !.writer = TRUE]
    /\ LET fetch == fetchKeys(goroutines[g].issuer,
                              [discovery |-> goroutines[g].discovery,
                               jwks |-> [ok |-> TRUE, keys |-> goroutines[g].jwks]],
                              keys, issuerKeys)
       IN /\ keys' = fetch.keys
          /\ issuerKeys' = fetch.issuerKeys
    /\ goroutines' = [Storing(g, keySetURL(goroutines[g].issuer, goroutines[g].discovery),
                               "stored")
                          EXCEPT ![g].before = [keys |-> keys, issuerKeys |-> issuerKeys]]
    /\ UNCHANGED <<plugin, routine, now, pc, served>>

\* The goroutines that wait on readerSem inside RLock()
Blocked == { h \in Goroutines : goroutines[h].pc = "rwait" }

\* The deferred Unlock() and the return of fetchKeys: readerCount is then
\* the number of the readers that wait, Unlock() releases as many wake-ups
\* on readerSem and frees rw.w for the next writer, which will have to wait
\* for those read locks; the readers return from RLock() in steps of their
\* own
GoUnlock(g) ==
    /\ goroutines[g].pc = "stored"
    /\ lock' = [readers |-> lock.readers + Cardinality(Blocked),
                sem |-> lock.sem + Cardinality(Blocked),
                writer |-> FALSE, announced |-> FALSE]
    /\ goroutines' = [goroutines EXCEPT ![g] = afterFetch(goroutines[g], "")]
    /\ UNCHANGED <<plugin, routine, keys, issuerKeys, now, pc, served>>

\* getKey has returned, or the panic has ended the goroutine
GoReturn(g) ==
    /\ goroutines[g].pc \in {"returned", "panicked"}
    /\ goroutines' = [goroutines EXCEPT ![g] = Idle]
    /\ UNCHANGED <<plugin, routine, keys, issuerKeys, now, pc, served, lock>>

\* fetchRoutine calls fetchAllKeys: after the delay of the prefetch, and
\* again and again with a refresh interval
GoFetchAllKeys ==
    /\ routine.delayPrefetch # NoPrefetch \/ routine.refreshKeysInterval # Nanoseconds(0)
    /\ goroutines[Refresher].pc = "idle"
    /\ goroutines' = [goroutines EXCEPT ![Refresher] = Running("next", NoToken, plugin.issuers)]
    /\ UNCHANGED <<plugin, routine, keys, issuerKeys, now, pc, served, lock>>

\* The loop of fetchAllKeys: the next issuer that is no pattern is fetched,
\* and after the last fetchAllKeys returns, to fetchRoutine when the model
\* follows its schedule
GoNextIssuer ==
    /\ goroutines[Refresher].pc = "next"
    /\ LET state == goroutines[Refresher]
       IN goroutines' = [goroutines EXCEPT ![Refresher] =
             IF state.todo = <<>>
             THEN IF "left" \in DOMAIN state
                  THEN refreshLoop([field \in RoutineFields |-> state[field]])
                  ELSE Idle
             ELSE IF ContainsChar(Head(state.todo), "*")
             THEN [state EXCEPT !.todo = Tail(@)]
             ELSE [state EXCEPT !.todo = Tail(@), !.pc = "discovery",
                                !.issuer = Head(state.todo), !.fetches = @ + 1]]
    /\ UNCHANGED <<plugin, routine, keys, issuerKeys, now, pc, served, lock>>

\* fetchRoutine up to its first Sleep
RoutineBegin ==
    /\ goroutines[Refresher].pc = "start"
    /\ goroutines' = [goroutines EXCEPT ![Refresher] =
          IF @.delayPrefetch # NoPrefetch
          THEN sleep(@, "prefetch", @.delayPrefetch)
          ELSE refreshLoop(@)]
    /\ UNCHANGED <<plugin, routine, keys, issuerKeys, now, pc, served, lock>>

\* A nanosecond of the current Sleep passes
Elapse ==
    /\ goroutines[Refresher].pc \in {"prefetch", "refresh"}
    /\ goroutines[Refresher].left # <<>>
    /\ goroutines' = [goroutines EXCEPT ![Refresher].left = DecimalBefore(@)]
    /\ UNCHANGED <<plugin, routine, keys, issuerKeys, now, pc, served, lock>>

\* Sleep returns and fetchRoutine calls fetchAllKeys, which begins its loop
\* over the issuers
RoutineFetch ==
    /\ goroutines[Refresher].pc \in {"prefetch", "refresh"}
    /\ goroutines[Refresher].left = <<>>
    /\ goroutines' = [goroutines EXCEPT ![Refresher] =
          Running("next", NoToken, plugin.issuers)
          @@ (IF @.pc = "prefetch" THEN [@ EXCEPT !.prefetches = @ + 1]
              ELSE [@ EXCEPT !.odd = ~@])]
    /\ UNCHANGED <<plugin, routine, keys, issuerKeys, now, pc, served, lock>>

\* The middleware has handled a request: `key` is what getKey returned to the
\* parser (`notCalled` when the parser never asked), and the rest of
\* validate and of ServeHTTP follows, with the clock as it is now and
\* headerMap ranged over in `order`.  served keeps the goroutine, the
\* request, what validate did, the response and that clock until the
\* response is delivered and the goroutine ends.
Answered(g, request, notCalled, key, order) ==
    /\ served' = [by |-> g, now |-> now, request |-> request]
                 @@ Serve(plugin, request, now, notCalled, key, order)
    /\ pc' = "served"
    /\ goroutines' = [goroutines EXCEPT ![g] = [pc |-> "answered"]]
    /\ UNCHANGED <<plugin, routine, keys, issuerKeys, now, lock>>

\* A request arrives and its goroutine runs ServeHTTP up to the first
\* operation on plugin.lock: the RLock of getKey.  A handler that reaches
\* none (no token, a token the parser rejects before it asks for the key, a
\* getKey that goes straight to the fixed secret) runs to its end.
ServeHTTPEntered(g, request, called, entered) ==
    IF called /\ entered.pc = "rlock"
    THEN /\ entered.token.header["kid"].t # "str" => Leaked < MaxLeaks
         /\ goroutines' = [goroutines EXCEPT ![g] = [entered EXCEPT !.request = request]]
         /\ UNCHANGED <<plugin, routine, keys, issuerKeys, now, pc, served, lock>>
    ELSE \E order \in Orders(DOMAIN plugin.headerMap) :
            Answered(g, request, KeyResult,
                     IF called THEN getKeyReturned(entered) ELSE KeyResult, order)

\* ServeHTTP with the token of the request extracted and decoded: the parser
\* calls getKey, or not
ServeHTTPDecoded(g, request, token, decoded) ==
    ServeHTTPEntered(g, request, token # <<>> /\ callsGetKey(plugin, decoded),
                     getKeyEntered(plugin, keys,
                                   [header |-> decoded.header, claims |-> decoded.claims]))

ServeHTTPExtracted(g, request, token) == ServeHTTPDecoded(g, request, token, Decode(token))

ServeHTTP(g, request) ==
    /\ g \in Requesters
    /\ goroutines[g].pc = "idle"
    /\ ServeHTTPExtracted(g, request, extractToken(plugin, request).token)

\* getKey has returned to the parser, or has panicked, and the handler runs
\* to its end
Deliver(g) ==
    /\ goroutines[g].pc \in {"returned", "panicked"}
    /\ goroutines[g].request # NoRequest
    /\ \E order \in Orders(DOMAIN plugin.headerMap) :
          Answered(g, goroutines[g].request, KeyResult,
                   getKeyReturned(goroutines[g]), order)

\* The response of a goroutine is delivered and the goroutine ends; the
\* last answer is forgotten with its goroutine
Complete(g) ==
    /\ goroutines[g].pc = "answered"
    /\ goroutines' = [goroutines EXCEPT ![g] = Idle]
    /\ IF pc = "served" /\ served.by = g
       THEN pc' = "idle" /\ served' = <<>>
       ELSE UNCHANGED <<pc, served>>
    /\ UNCHANGED <<plugin, routine, keys, issuerKeys, now, lock>>

\* A second passes
Tick ==
    /\ now < MaxNow
    /\ now' = now + 1
    /\ UNCHANGED <<plugin, routine, keys, issuerKeys, pc, served, lock, goroutines>>

Next ==
    \/ \E request \in PipelineRequests : ServeHTTP(Requester, request)
    \/ \E g \in Goroutines : GoRLock(g)
    \/ \E g \in Goroutines : GoLookup(g)
    \/ \E g \in Goroutines : GoDiscovery(g, DiscoveryFails)
    \/ \E g \in Goroutines, answer \in JWKSAnswers : GoJWKS(g, answer)
    \/ \E g \in Goroutines : GoLockWait(g)
    \/ \E g \in Goroutines : GoStore(g)
    \/ \E g \in Goroutines : GoUnlock(g)
    \/ \E g \in Goroutines : Deliver(g)
    \/ \E g \in Requesters : Complete(g)
    \/ Tick


Spec == Init /\ [][Next]_vars

(***************************************************************************)
(* Token extraction on its own: the three sources configured or not, their *)
(* names, forwardToken, and requests that carry a credential in any        *)
(* combination of the sources.                                             *)
(***************************************************************************)
(***************************************************************************)
(* The failure presentations without a redirect: requests of every         *)
(* Content-Type kind against configurations with no redirect template.     *)
(***************************************************************************)
GRPCConfigs ==
    { [CreateConfig EXCEPT !.Secret = <<"S">>, !.Require = [aud |-> Str(ClaimTest)],
                           !.Optional = optional, !.Freshness = freshness] :
        optional \in BOOLEAN, freshness \in {0, 1} }

GRPCRequests ==
    { Request(authorization @@ contentType, <<>>, <<>>) :
        authorization \in { EmptyMap }
            \cup { (Authorization :> <<Bearer \o text>>) :
                    text \in { <<"t", ".", "o", "k">>, <<"t", ".", "o", "t", "h", "e", "r">>, <<"t", ".", "i", "a", "t">>, <<"t", ".", "e", "x", "p">>, <<"t", ".", "b", "a", "d", "s", "i", "g">> } },
        contentType \in { EmptyMap }
            \cup { (ContentType :> <<value>>) :
                    value \in { <<"a", "p", "p", "l", "i", "c", "a", "t", "i", "o", "n", "/", "g", "r", "p", "c">>, <<"A", "p", "p", "l", "i", "c", "a", "t", "i", "o", "n", "/", "G", "R", "P", "C">>,
                                <<"a", "p", "p", "l", "i", "c", "a", "t", "i", "o", "n", "/", "g", "r", "p", "c", "+", "p", "r", "o", "t", "o">>,
                                <<"t", "e", "x", "t", "/", "p", "l", "a", "i", "n", ",", " ", "a", "p", "p", "l", "i", "c", "a", "t", "i", "o", "n", "/", "g", "r", "p", "c">>,
                                <<"t", "e", "x", "t", "/", "p", "l", "a", "i", "n", ",", "a", "p", "p", "l", "i", "c", "a", "t", "i", "o", "n", "/", "g", "r", "p", "c", ",", "x">>,
                                <<"x", " ", "a", "p", "p", "l", "i", "c", "a", "t", "i", "o", "n", "/", "g", "r", "p", "c", "\t", "y">>,
                                <<"a", "p", "p", "l", "i", "c", "a", "t", "i", "o", "n", "/", "g", "r", "p", "c", ";", "c", "h", "a", "r", "s", "e", "t", "=", "u", "t", "f", "-", "8">>,
                                <<"a", "p", "p", "l", "i", "c", "a", "t", "i", "o", "n", "/", "g", "r", "p", "c", "-", "w", "e", "b">>, <<"a", "p", "p", "l", "i", "c", "a", "t", "i", "o", "n", "/", "g", "r", "p", "c", "s">>,
                                <<"x", "a", "p", "p", "l", "i", "c", "a", "t", "i", "o", "n", "/", "g", "r", "p", "c">>, <<"a", "p", "p", "l", "i", "c", "a", "t", "i", "o", "n", "/", "j", "s", "o", "n">>,
                                <<"a", "p", "p", "l", "i", "c", "a", "t", "i", "o", "n", "/", "g", "r", "p">>, <<>> } } }

InitGRPC == InitWith(GRPCConfigs)

NextGRPC ==
    \/ \E request \in GRPCRequests : ServeHTTP(Requester, request)
    \/ \E g \in Requesters : Complete(g)
    \/ Tick

SpecGRPC == InitGRPC /\ [][NextGRPC]_vars

(***************************************************************************)
(* The projection of claims to headers: configurations with a headerMap    *)
(* and requests that already carry the mapped headers.                     *)
(***************************************************************************)
HeaderConfigs ==
    { [CreateConfig EXCEPT !.Secret = <<"S">>, !.Require = [aud |-> Str(ClaimTest)],
                           !.HeaderMap = headerMap,
                           !.RemoveMissingHeaders = removeMissingHeaders,
                           !.ForwardToken = forwardToken, !.Optional = optional] :
        optional \in BOOLEAN,
        headerMap \in { (<<"X", "-", "A", "u", "d", "i", "e", "n", "c", "e">> :> "aud") @@ (<<"X", "-", "I", "d">> :> "user"),
                        (<<"x", "-", "i", "d">> :> "user") @@ (<<"X", "-", "R", "o", "l", "e", "s">> :> "roles"),
                        (<<"X", "-", "I", "d">> :> "iat"),
                        (<<"x", "-", "i", "d">> :> "aud") @@ (<<"X", "-", "I", "d">> :> "user") },
        removeMissingHeaders \in BOOLEAN,
        forwardToken \in BOOLEAN }

HeaderRequests ==
    { Request(authorization @@ other @@ id @@ audience, <<>>, <<>>) :
        authorization \in { EmptyMap }
            \cup { (Authorization :> <<Bearer \o text>>) :
                    text \in { <<"t", ".", "o", "k">>, <<"t", ".", "r", "o", "l", "e", "s">>, <<"t", ".", "o", "t", "h", "e", "r">>, <<"t", ".", "i", "a", "t">>, <<"t", ".", "e", "x", "p">> } },
        other \in { (<<"X", "-", "O", "t", "h", "e", "r">> :> << <<"o", "t", "h", "e", "r">> >>) },
        id \in { EmptyMap, (<<"X", "-", "I", "d">> :> << <<"i", "m", "p", "e", "r", "s", "o", "n", "a", "t", "e", "d">> >>),
                 (<<"X", "-", "I", "d">> :> << <<"a">>, <<"b">> >>) },
        audience \in { EmptyMap, (<<"X", "-", "A", "u", "d", "i", "e", "n", "c", "e">> :> << <<"f", "o", "r", "g", "e", "d">> >>) } }

InitHeaders == InitWith(HeaderConfigs)

NextHeaders ==
    \/ \E request \in HeaderRequests : ServeHTTP(Requester, request)
    \/ \E g \in Requesters : Complete(g)
    \/ Tick

SpecHeaders == InitHeaders /\ [][NextHeaders]_vars

(***************************************************************************)
(* The requirement engine end to end: one requirement on the claim         *)
(* "authority" against tokens that carry each kind of value for it.        *)
(***************************************************************************)
AuthorityRequires ==
    { Str(<<"t", "e", "s", "t", ".", "e", "x", "a", "m", "p", "l", "e", ".", "c", "o", "m">>), Str(<<"e", "x", "a", "m", "p", "l", "e", ".", "c", "o", "m">>), Str(<<"t", "e", "s", "t", ".", "c", "o", "m", "p", "a", "n", "y", ".", "c", "o", "m">>),
      Str(<<"*", ".", "e", "x", "a", "m", "p", "l", "e", ".", "c", "o", "m">>),
      Arr(<<Str(<<"t", "e", "s", "t", ".", "e", "x", "a", "m", "p", "l", "e", ".", "c", "o", "m">>), Str(<<"o", "t", "h", "e", "r", ".", "o", "t", "h", "e", "r", ".", "c", "o", "m">>)>>),
      Obj(<<"t", "e", "s", "t", ".", "e", "x", "a", "m", "p", "l", "e", ".", "c", "o", "m">> :> Str(<<"u", "s", "e", "r">>)),
      Obj(<<"t", "e", "s", "t", ".", "e", "x", "a", "m", "p", "l", "e", ".", "c", "o", "m">> :> Arr(<<Str(<<"u", "s", "e", "r">>), Str(<<"a", "d", "m", "i", "n">>)>>)),
      Obj(<<"t", "e", "s", "t", ".", "e", "x", "a", "m", "p", "l", "e", ".", "c", "o", "m">> :> Str(<<"a", "d", "m", "i", "n">>)),
      Arr(<<Arr(<<Str(<<"x">>), Str(<<"y">>)>>)>>),
      Arr(<<Obj(<<"k">> :> Str(<<"v">>))>>),
      Str(<<"{", "{", ".", "H", "o", "s", "t", "}", "}">>), Str(<<"{", "{", ".", "R", "E", "G", "I", "O", "N", "}", "}">>), Str(<<"{", "{", ".", "X", "H", "o", "s", "t", "}", "}">>) }

RequireConfigs ==
    { [CreateConfig EXCEPT !.Secret = <<"S">>, !.Require = [authority |-> require],
                           !.Freshness = freshness] :
        require \in AuthorityRequires, freshness \in {0, 1} }

RequireRequests ==
    { Request((Authorization :> <<Bearer \o jwt.raw>>), <<>>, <<>>) : jwt \in RequireJWTs }

InitRequire == InitWith(RequireConfigs)

NextRequire ==
    \/ \E request \in RequireRequests : ServeHTTP(Requester, request)
    \/ \E g \in Requesters : Complete(g)
    \/ Tick

SpecRequire == InitRequire /\ [][NextRequire]_vars

(***************************************************************************)
(* The requirement engine as a function: convertRequire builds the         *)
(* requirements of a configuration that requires the claim "roles", with   *)
(* the keys $and and $or and with nested objects among the requirements,   *)
(* and validateClaims checks a value of the claim against them.            *)
(***************************************************************************)
RolesRequires ==
    { Obj(<<"$", "a", "n", "d">> :> Arr(<<Str(<<"a", "d", "m", "i", "n">>), Str(<<"o", "t", "h", "e", "r">>)>>)),
      Obj(<<"$", "o", "r">> :> Arr(<<Str(<<"a", "d", "m", "i", "n">>), Str(<<"o", "t", "h", "e", "r">>)>>)),
      Obj(<<"$", "o", "r">> :> Arr(<<Obj(<<"$", "a", "n", "d">> :> Arr(<<Str(<<"h", "r">>), Str(<<"p", "o", "w", "e", "r">>)>>)), Str(<<"a", "d", "m", "i", "n">>)>>)),
      Obj(<<"$", "a", "n", "d">> :> Arr(<<Obj(<<"$", "o", "r">> :> Arr(<<Str(<<"h", "r">>), Str(<<"a", "d", "m", "i", "n">>)>>)), Str(<<"p", "o", "w", "e", "r">>)>>)),
      Obj(<<"$", "a", "n", "d">> :> Arr(<<>>)),
      Obj(<<"$", "o", "r">> :> Arr(<<>>)),
      Arr(<<Str(<<"a", "d", "m", "i", "n">>), Str(<<"o", "t", "h", "e", "r">>)>>),
      Obj(<<"n", "e", "s", "t", "e", "d">> :> Obj(<<"r", "o", "l", "e", "s">> :> Arr(<<Str(<<"o", "t", "h", "e", "r">>), Str(<<"t", "e", "s", "t">>)>>))),
      Obj(<<"n", "e", "s", "t", "e", "d">> :> Obj(<<"r", "o", "l", "e", "s">> :> Arr(<<Str(<<"a", "d", "m", "i", "n">>), Str(<<"t", "e", "s", "t">>)>>))),
      Obj(<<"n", "e", "s", "t", "e", "d">> :> Obj(<<"d", "e", "e", "p">> :> Obj(<<"r", "o", "l", "e", "s">> :> Arr(<<Str(<<"a", "d", "m", "i", "n">>), Str(<<"t", "e", "s", "t">>)>>)))) }

RolesClaims ==
    LET inner == { Str(<<"t", "e", "s", "t">>), Str(<<"o", "t", "h", "e", "r">>), Str(<<"a", "d", "m", "i", "n">>), Nil, Arr(<<>>),
                   Arr(<<Str(<<"g", "u", "e", "s", "t">>), Str(<<"t", "e", "s", "t">>)>>), Arr(<<Str(<<"g", "u", "e", "s", "t">>)>>) }
    IN { Arr(roles) :
            roles \in UNION { [1..n -> { Str(<<"a", "d", "m", "i", "n">>), Str(<<"o", "t", "h", "e", "r">>), Str(<<"h", "r">>), Str(<<"p", "o", "w", "e", "r">>) }] :
                                n \in 0..2 } }
       \cup { Str(<<"a", "d", "m", "i", "n">>), Obj(<<"$", "a", "n", "d">> :> Str(<<"a", "d", "m", "i", "n">>)),
              Obj(<<"$", "o", "r">> :> Arr(<<Str(<<"a", "d", "m", "i", "n">>), Str(<<"o", "t", "h", "e", "r">>)>>)),
              Obj(<<"n", "e", "s", "t", "e", "d">> :> Str(<<"t", "e", "s", "t">>)),
              Obj(<<"n", "e", "s", "t", "e", "d">> :> Obj(<<"o", "t", "h", "e", "r">> :> Str(<<"a", "d", "m", "i", "n">>))),
              Obj(<<"o", "t", "h", "e", "r">> :> Obj(<<"r", "o", "l", "e", "s">> :> Str(<<"t", "e", "s", "t">>))) }
       \cup { Obj(<<"n", "e", "s", "t", "e", "d">> :> Obj(<<"r", "o", "l", "e", "s">> :> x)) : x \in inner }
       \cup { Obj(<<"n", "e", "s", "t", "e", "d">> :> Obj((<<"o", "t", "h", "e", "r">> :> Str(<<"a", "d", "m", "i", "n">>)) @@ (<<"r", "o", "l", "e", "s">> :> x))) : x \in inner }
       \cup { Obj(<<"n", "e", "s", "t", "e", "d">> :> Obj(<<"d", "e", "e", "p">> :> Obj((<<"o", "t", "h", "e", "r">> :> Str(<<"a", "d", "m", "i", "n">>)) @@ (<<"r", "o", "l", "e", "s">> :> x)))) :
                x \in inner }

InitEngine == InitWith({ [CreateConfig EXCEPT !.Secret = <<"S">>] })

\* validateClaims on the claims of a token, for a plugin whose require is
\* what convertRequire makes of the configuration's: valid for a nil error
EvaluateRequirements(require, claims) ==
    /\ goroutines[Requester].pc = "idle"
    /\ served' = [by |-> Requester, require |-> require, claims |-> claims,
                  valid |-> validateClaims(convertRequire(require), claims,
                                           plugin.environment)]
    /\ pc' = "served"
    /\ goroutines' = [goroutines EXCEPT ![Requester] = [pc |-> "answered"]]
    /\ UNCHANGED <<plugin, routine, keys, issuerKeys, now, lock>>

NextEngine ==
    \/ \E require \in RolesRequires, value \in RolesClaims :
          EvaluateRequirements([roles |-> require], [roles |-> value])
    \/ \E g \in Requesters : Complete(g)

SpecEngine == InitEngine /\ [][NextEngine]_vars

TokName == <<"t", "o", "k">>
Accept == <<"A", "c", "c", "e", "p", "t">>

ExtractConfigs ==
    { [CreateConfig EXCEPT !.Secret = <<"S">>, !.CookieName = cookieName,
                           !.HeaderName = headerName, !.ParameterName = parameterName,
                           !.ForwardToken = forwardToken] :
        cookieName \in { <<>>, TokName },
        headerName \in { <<>>, Authorization, <<"a", "u", "t", "h", "o", "r", "i", "z", "a", "t", "i", "o", "n">> },
        parameterName \in { <<>>, TokName },
        forwardToken \in BOOLEAN }

ExtractCookies ==
    { <<>>,
      <<[name |-> <<"s", "i", "d">>, value |-> <<"1">>], [name |-> TokName, value |-> <<"t", ".", "o", "k">>],
        [name |-> TokName, value |-> <<"t", ".", "i", "a", "t">>]>>,
      <<[name |-> TokName, value |-> <<>>], [name |-> <<"s", "i", "d">>, value |-> <<"1">>]>> }

ExtractHeaders ==
    { (Accept :> << <<"*", "/", "*">> >>) }
    \cup { (Accept :> << <<"*", "/", "*">> >>) @@ (Authorization :> <<value>>) :
            value \in { Bearer \o <<"t", ".", "r", "o", "l", "e", "s">>, <<"b", "e", "a", "r", "e", "r", " ", "t", ".", "r", "o", "l", "e", "s">>, <<"t", ".", "r", "o", "l", "e", "s">>,
                        <<"B", "e", "a", "r">>, Bearer } }

ExtractQueries ==
    { <<>>,
      <<"z", "=", "1", "&", "t", "o", "k", "=", "t", ".", "o", "t", "h", "e", "r", "&", "a", "=", "b", "+", "c">>,
      <<"t", "o", "k", "=">>,
      <<"a", "=", "1">>,
      <<"t", "o", "k", "=", "%", "z", "z", "&", "&", "x", ";", "y", "=", "2", "&", "t", "o", "k", "=", "t", "%", "2", "E", "o", "t", "h", "e", "r", "&", "a", "=", "%", "4", "1">> }

\* The requests as http.NewRequest builds them and as a server reads them
ExtractRequests ==
    LET built == { Request(header, cookies, query) :
                     header \in ExtractHeaders, cookies \in ExtractCookies,
                     query \in ExtractQueries }
    IN built \cup { ServerRequest(request) : request \in built }

InitExtract == InitWith(ExtractConfigs)

NextExtract ==
    \/ \E request \in ExtractRequests : ServeHTTP(Requester, request)
    \/ \E g \in Requesters : Complete(g)

SpecExtract == InitExtract /\ [][NextExtract]_vars

(***************************************************************************)
(* Properties of the validation pipeline.  Each is stated on the request   *)
(* just served: `served` holds the request as it arrived, what validate    *)
(* did with it and the response.                                           *)
(***************************************************************************)

\* C1: ServeHTTP calls the next handler exactly once when validate returns no
\* error and never when validate returns an error, whether the failure is
\* presented as a redirect, as gRPC headers, as an error body or as a 500.
C1_NextHandlerOnce ==
    (pc = "served" /\ ~served.result.panic) =>
        /\ served.result.err = "" =>
              served.response.nextCalls = 1 /\ served.response.presentation = "next"
        /\ served.result.err # "" =>
              /\ served.response.nextCalls = 0
              /\ served.response.presentation \in {"redirect", "grpc", "error", "internal"}

\* A token that validates was served: the next handler was called once
C1_Witness ==
    /\ pc = "served"
    /\ served.result.extracted.token # <<>>
    /\ served.result.err = ""
    /\ served.response.nextCalls = 1

\* C2: without a token the request is allowed exactly when optional is
\* configured, and is Unauthorized (401) otherwise, whatever claims are
\* required.
C2_NoToken ==
    (pc = "served" /\ served.result.extracted.token = <<>>) =>
        /\ ~served.result.panic
        /\ plugin.optional =>
              served.result.err = "" /\ served.response.nextCalls = 1
        /\ ~plugin.optional =>
              /\ served.result.err # ""
              /\ served.result.status = StatusUnauthorized
              /\ served.response.nextCalls = 0

\* A request without a token was allowed under optional although claims are
\* required
C2_Witness ==
    /\ pc = "served"
    /\ served.result.extracted.token = <<>>
    /\ plugin.optional
    /\ DOMAIN plugin.require # {}
    /\ served.response.nextCalls = 1

\* C3: a token that the parser rejects (malformed, signing method not
\* accepted, no key, bad signature, expired) is Unauthorized and the request
\* is not forwarded, under optional too.
C3_ParseFailure ==
    (/\ pc = "served"
     /\ served.result.extracted.token # <<>>
     /\ ~served.result.parse.panic
     /\ served.result.parse.err # "") =>
        /\ ~served.result.panic
        /\ served.result.status = StatusUnauthorized
        /\ served.result.err # ""
        /\ served.response.nextCalls = 0

\* Under optional, a token with a bad signature was refused as Unauthorized
C3_Witness ==
    /\ pc = "served"
    /\ plugin.optional
    /\ served.result.extracted.token # <<>>
    /\ served.result.parse.err = "signature is invalid"
    /\ served.result.status = StatusUnauthorized
    /\ served.response.nextCalls = 0

\* C4: a verified token whose claims fail validation is Unauthorized exactly
\* when the freshness window F is not zero, the token has an iat and
\* now - iat > F, and is Forbidden in every other case.  (For an iat with a
\* fraction, now - iat > F exactly when now - whole > F, F and now being
\* whole numbers.)
C4_FreshnessRule ==
    (/\ pc = "served"
     /\ served.result.extracted.token # <<>>
     /\ ~served.result.parse.panic
     /\ served.result.parse.err = ""
     /\ ~served.result.claimsValid) =>
        LET claims == Decode(served.result.extracted.token).claims
            stale == /\ plugin.freshness # 0
                     /\ "iat" \in DOMAIN claims
                     /\ claims["iat"].t = "num"
                     /\ served.now - claims["iat"].v.whole > plugin.freshness
        IN /\ ~served.result.panic
           /\ served.result.status = IF stale THEN StatusUnauthorized ELSE StatusForbidden

\* C5: every request ends in one of the outcomes Allowed, Unauthorized,
\* Forbidden, RedirectUnauthorized, RedirectForbidden or InternalError: the
\* handler is never aborted, whatever the token's iat or kid.
C5_TerminalOutcome ==
    pc = "served" =>
        /\ ~served.result.panic
        /\ served.response.presentation \in {"next", "redirect", "grpc", "error", "internal"}

\* C6: validateClaims succeeds exactly when every configured claim is on the
\* token and at least one Requirement of its ClaimRequirements matches the
\* claim's value; an empty list of requirements never matches.
C6_ClaimsAndOr ==
    (/\ pc = "served"
     /\ served.result.extracted.token # <<>>
     /\ ~served.result.parse.panic
     /\ served.result.parse.err = "") =>
        LET claims == Decode(served.result.extracted.token).claims
            variables == NewTemplateVariables(plugin, served.request)
            Matches(claim) ==
                \E i \in DOMAIN plugin.require[claim] :
                    RequirementValidate(plugin.require[claim][i], claims[claim], variables)
        IN served.result.claimsValid <=>
              \A claim \in DOMAIN plugin.require :
                  claim \in DOMAIN claims /\ Matches(claim)

\* A token with the claim was refused because the list of requirements under
\* the claim is empty
C6_Witness ==
    /\ pc = "served"
    /\ served.result.extracted.token # <<>>
    /\ ~served.result.parse.panic
    /\ served.result.parse.err = ""
    /\ \E claim \in DOMAIN plugin.require :
          /\ plugin.require[claim] = <<>>
          /\ claim \in DOMAIN Decode(served.result.extracted.token).claims
    /\ ~served.result.claimsValid
    /\ served.response.nextCalls = 0

\* C7: a verified token that lacks a configured claim fails validation
\* whatever is required of the claim: the request is not forwarded and the
\* status is the one of the freshness rule (Forbidden without an iat).
C7_AbsentClaim ==
    (/\ pc = "served"
     /\ served.result.extracted.token # <<>>
     /\ ~served.result.parse.panic
     /\ served.result.parse.err = ""
     /\ \E claim \in DOMAIN plugin.require :
           claim \notin DOMAIN Decode(served.result.extracted.token).claims) =>
        LET claims == Decode(served.result.extracted.token).claims
            stale == /\ plugin.freshness # 0
                     /\ "iat" \in DOMAIN claims
                     /\ claims["iat"].t = "num"
                     /\ served.now - claims["iat"].v.whole > plugin.freshness
        IN /\ ~served.result.claimsValid
           /\ served.response.nextCalls = 0
           /\ ~served.result.panic
           /\ served.result.status = IF stale THEN StatusUnauthorized ELSE StatusForbidden

\* C8: extractToken reads the cookie, then the header (a "Bearer " prefix in
\* any case removed), then the query parameter, each only if its name is
\* configured; the token is the first one that is not empty, and a source is
\* read only if every source before it gave an empty token.
C8_ExtractionOrder ==
    pc = "served" =>
        LET request == served.request
            named == { i \in DOMAIN request.cookies :
                         request.cookies[i].name = plugin.cookieName }
            first == CHOOSE i \in named : \A j \in named : i <= j
            cookie == IF plugin.cookieName = <<>> \/ named = {} THEN <<>>
                      ELSE request.cookies[first].value
            raw == request.header[plugin.headerName][1]
            header ==
                IF plugin.headerName = <<>> \/ plugin.headerName \notin DOMAIN request.header
                THEN <<>>
                ELSE IF /\ Len(raw) >= 7
                        /\ [i \in 1..7 |-> ToLower(raw[i])] = <<"b", "e", "a", "r", "e", "r", " ">>
                THEN SubSeq(raw, 8, Len(raw))
                ELSE raw
            values == URLQuery(request.url)
            params == { i \in DOMAIN values : values[i].key = plugin.parameterName }
            param == CHOOSE i \in params : \A j \in params : i <= j
            query == IF plugin.parameterName = <<>> \/ params = {} THEN <<>>
                     ELSE values[param].value
        IN /\ served.result.extracted.token =
                 IF cookie # <<>> THEN cookie ELSE IF header # <<>> THEN header ELSE query
           /\ served.result.extracted.consulted =
                 (IF plugin.cookieName # <<>> THEN <<"cookie">> ELSE <<>>)
                 \o (IF cookie = <<>> /\ plugin.headerName # <<>>
                     THEN <<"header">> ELSE <<>>)
                 \o (IF cookie = <<>> /\ header = <<>> /\ plugin.parameterName # <<>>
                     THEN <<"query">> ELSE <<>>)

\* With the three sources configured, an empty cookie, a header with a
\* lower-case "bearer " prefix and a query parameter, the token is the
\* header's without the prefix and the query was not read
C8_Witness ==
    /\ pc = "served"
    /\ plugin.cookieName # <<>> /\ plugin.parameterName # <<>>
    /\ \E i \in DOMAIN served.request.cookies :
          served.request.cookies[i] = [name |-> plugin.cookieName, value |-> <<>>]
    /\ Authorization \in DOMAIN served.request.header
    /\ served.request.header[Authorization] = << <<"b", "e", "a", "r", "e", "r", " ", "t", ".", "r", "o", "l", "e", "s">> >>
    /\ \E i \in DOMAIN URLQuery(served.request.url) :
          /\ URLQuery(served.request.url)[i].key = plugin.parameterName
          /\ URLQuery(served.request.url)[i].value # <<>>
    /\ served.result.extracted.token = <<"t", ".", "r", "o", "l", "e", "s">>
    /\ served.result.extracted.consulted = <<"cookie", "header">>

\* C9: with forwardToken false, the request that leaves extractToken no
\* longer carries the token where it was found: the cookies of the
\* configured name are gone and the others kept, or the header is gone and
\* the others kept, or the query parameter is gone, the others kept and the
\* RequestURI rewritten; with forwardToken true the cookies, the headers and
\* the query are those of the request as it arrived.
C9_TokenStripped ==
    (pc = "served" /\ served.result.extracted.token # <<>>) =>
        LET before == served.request
            after == served.result.extracted.request
            source == served.result.extracted.consulted[Len(served.result.extracted.consulted)]
            OtherCookie(cookie) == cookie.name # plugin.cookieName
            OtherParam(pair) == pair.key # plugin.parameterName
            Count(query, pair) == Cardinality({ i \in DOMAIN query : query[i] = pair })
        IN IF plugin.forwardToken
           THEN /\ after.cookies = before.cookies
                /\ after.header = before.header
                /\ after.url = before.url
                /\ after.requestURI = before.requestURI
           ELSE /\ source = "cookie" =>
                    /\ after.cookies = SelectSeq(before.cookies, OtherCookie)
                    /\ after.header = before.header
                /\ source = "header" =>
                    /\ plugin.headerName \notin DOMAIN after.header
                    /\ \A name \in DOMAIN before.header \ {plugin.headerName} :
                          name \in DOMAIN after.header
                          /\ after.header[name] = before.header[name]
                /\ source = "query" =>
                    /\ \A i \in DOMAIN URLQuery(after.url) :
                          URLQuery(after.url)[i].key # plugin.parameterName
                    /\ \A i \in DOMAIN URLQuery(before.url) :
                          OtherParam(URLQuery(before.url)[i]) =>
                              Count(URLQuery(after.url), URLQuery(before.url)[i])
                                  = Count(URLQuery(before.url), URLQuery(before.url)[i])
                    /\ Len(URLQuery(after.url))
                           = Len(SelectSeq(URLQuery(before.url), OtherParam))
                    /\ after.requestURI = RequestURI(after.url)
                    /\ after.requestURI # before.requestURI

\* With forwardToken false, a token found in the query was removed from a
\* query that has other parameters
C9_Witness ==
    /\ pc = "served"
    /\ ~plugin.forwardToken
    /\ served.result.extracted.token = <<"t", ".", "o", "t", "h", "e", "r">>
    /\ served.result.extracted.consulted[Len(served.result.extracted.consulted)] = "query"
    /\ served.request.url.rawQuery = <<"z", "=", "1", "&", "t", "o", "k", "=", "t", ".", "o", "t", "h", "e", "r", "&", "a", "=", "b", "+", "c">>
    /\ Len(URLQuery(served.result.extracted.request.url)) = 2
    /\ served.result.extracted.request.requestURI = <<"/", "h", "o", "m", "e", "?", "a", "=", "b", "+", "c", "&", "z", "=", "1">>

\* C10: with the redirect templates configured, a failed request is answered
\* with a 302 to the expansion of the unauthorized template when it is
\* Unauthorized, of the forbidden template when it is Forbidden and that
\* template is configured, and of the unauthorized template otherwise,
\* whatever Content-Type the request has.
C10_Redirect ==
    (/\ pc = "served"
     /\ ~served.result.panic
     /\ served.result.err # ""
     /\ ~plugin.redirectUnauthorized.nil) =>
        LET template == IF served.result.status = StatusUnauthorized
                        THEN plugin.redirectUnauthorized
                        ELSE IF ~plugin.redirectForbidden.nil
                        THEN plugin.redirectForbidden
                        ELSE plugin.redirectUnauthorized
            url == expandTemplate(template, NewTemplateVariables(plugin, served.request))
        IN url.ok =>
              /\ served.response.code = StatusFound
              /\ served.response.presentation = "redirect"
              /\ Location \in DOMAIN served.response.header
              /\ served.response.header[Location] = url.text
              /\ served.response.nextCalls = 0

\* A Forbidden gRPC request was redirected to the forbidden template
C10_Witness ==
    /\ pc = "served"
    /\ served.result.status = StatusForbidden
    /\ ~plugin.redirectForbidden.nil
    /\ ContentType \in DOMAIN served.request.header
    /\ served.response.code = StatusFound
    /\ served.response.header[Location] = <<"h", "t", "t", "p", "s", ":", "/", "/", "x", "/", "d", "e", "n", "i", "e", "d">>

\* C11: with a redirect configured, a failed request whose selected redirect
\* template cannot be expanded is answered 500: no Location is sent and the
\* next handler is not called.
C11_ExpansionFailure ==
    (/\ pc = "served"
     /\ ~served.result.panic
     /\ served.result.err # ""
     /\ ~plugin.redirectUnauthorized.nil) =>
        LET template == IF served.result.status = StatusUnauthorized
                           \/ plugin.redirectForbidden.nil
                        THEN plugin.redirectUnauthorized
                        ELSE plugin.redirectForbidden
        IN ~ExecuteTemplate(template.parts,
                            NewTemplateVariables(plugin, served.request)).ok =>
              /\ served.response.code = StatusInternalServerError
              /\ served.response.presentation = "internal"
              /\ Location \notin DOMAIN served.response.header
              /\ served.response.nextCalls = 0

\* A Forbidden request whose forbidden template names an undefined variable
\* was answered 500
C11_Witness ==
    /\ pc = "served"
    /\ served.result.status = StatusForbidden
    /\ served.result.err # ""
    /\ ~plugin.redirectForbidden.nil
    /\ ~ExecuteTemplate(plugin.redirectForbidden.parts,
                        NewTemplateVariables(plugin, served.request)).ok
    /\ ExecuteTemplate(plugin.redirectUnauthorized.parts,
                       NewTemplateVariables(plugin, served.request)).ok
    /\ served.response.code = StatusInternalServerError
    /\ served.response.nextCalls = 0

\* C12: with no redirect configured, a failed request whose Content-Type
\* contains application/grpc in any case, delimited on each side by the end
\* of the value, a space, a comma, a tab or a plus, gets the response headers
\* Content-Type: application/grpc and grpc-status 16 with grpc-message
\* UNAUTHENTICATED when it is Unauthorized, 7 with PERMISSION_DENIED when it
\* is Forbidden; no error status and no body are written and the next handler
\* is not called.
C12_GRPCFailure ==
    (/\ pc = "served"
     /\ ~served.result.panic
     /\ served.result.err # ""
     /\ plugin.redirectUnauthorized.nil
     /\ ContentType \in DOMAIN served.request.header) =>
        LET value == served.request.header[ContentType][1]
            size == Len(ApplicationGRPC)
            delimiters == {" ", ",", "\t", "+"}
        IN (\E first \in 1..(Len(value) - size + 1) :
                /\ [i \in 1..size |-> ToLower(value[first + i - 1])] = ApplicationGRPC
                /\ first = 1 \/ value[first - 1] \in delimiters
                /\ first + size - 1 = Len(value) \/ value[first + size] \in delimiters) =>
              /\ served.response.presentation = "grpc"
              /\ served.response.code \notin { StatusUnauthorized, StatusForbidden }
              /\ served.response.body = ""
              /\ served.response.nextCalls = 0
              /\ served.response.header[ContentType] = ApplicationGRPC
              /\ served.result.status = StatusUnauthorized =>
                    /\ served.response.header[GRPCStatus] = <<"1", "6">>
                    /\ served.response.header[GRPCMessage] = Unauthenticated
              /\ served.result.status = StatusForbidden =>
                    /\ served.response.header[GRPCStatus] = <<"7">>
                    /\ served.response.header[GRPCMessage] = PermissionDenied

\* A Forbidden request with Content-Type application/grpc+proto got
\* grpc-status 7
C12_Witness ==
    /\ pc = "served"
    /\ served.result.status = StatusForbidden
    /\ ContentType \in DOMAIN served.request.header
    /\ served.request.header[ContentType] = << <<"a", "p", "p", "l", "i", "c", "a", "t", "i", "o", "n", "/", "g", "r", "p", "c", "+", "p", "r", "o", "t", "o">> >>
    /\ served.response.header[GRPCStatus] = <<"7">>
    /\ served.response.body = ""

\* C13: after a successful validation of a token, the header of a headerMap
\* entry whose claim the token lacks is absent from the forwarded request
\* when removeMissingHeaders is set and is otherwise exactly as received;
\* a header that headerMap does not name is as the token extraction left it;
\* a failed validation forwards no projected header.  Two entries of
\* headerMap may name one header (x-id and X-Id): the entries are visited in
\* any order, and the statement is about every one of them.
C13_MissingClaims ==
    (pc = "served" /\ ~served.result.panic) =>
        LET before == served.result.extracted.request.header
            after == served.result.request.header
            claims == Decode(served.result.extracted.token).claims
            mapped == { CanonicalMIMEHeaderKey(name) : name \in DOMAIN plugin.headerMap }
            Same(key, old) ==
                /\ key \in DOMAIN after <=> key \in DOMAIN old
                /\ key \in DOMAIN after => after[key] = old[key]
        IN /\ (served.result.err = "" /\ served.result.extracted.token # <<>>) =>
                /\ \A name \in DOMAIN plugin.headerMap :
                      plugin.headerMap[name] \notin DOMAIN claims =>
                         IF plugin.removeMissingHeaders
                         THEN CanonicalMIMEHeaderKey(name) \notin DOMAIN after
                         ELSE Same(CanonicalMIMEHeaderKey(name), served.request.header)
                /\ \A key \in (DOMAIN before \cup DOMAIN after) \ mapped :
                      Same(key, before)
           /\ served.result.err # "" => after = before

\* C14: a wildcard in a string claim grants the names it matches.  Under a
\* requirement that is one string, a token whose claim is "*." followed by a
\* domain is forwarded if and only if the required string ends with "."
\* and the domain or is the domain itself; otherwise it is answered
\* Forbidden.  So "*.example.com" satisfies "test.example.com" and
\* "example.com" but not "test.company.com", and "*.company.com" does not
\* satisfy "test.example.com".
C14_WildcardClaim ==
    (/\ pc = "served"
     /\ served.result.parse.err = ""
     /\ served.result.extracted.token # <<>>
     /\ Len(plugin.require.authority) = 1
     /\ plugin.require.authority[1].kind = "value"
     /\ plugin.require.authority[1].value.t = "str"
     /\ Decode(served.result.extracted.token).claims.authority.t = "str") =>
        LET required == plugin.require.authority[1].value.v
            claim == Decode(served.result.extracted.token).claims.authority.v
        IN HasPrefix(claim, <<"*", ".">>) =>
              IF HasSuffix(required, Tail(claim)) \/ required = Tail(Tail(claim))
              THEN served.response.nextCalls = 1 /\ served.result.err = ""
              ELSE /\ served.response.nextCalls = 0
                   /\ served.result.status = StatusForbidden

\* The claim "*.example.com" was accepted for the requirement
\* "test.example.com"
C14_Witness ==
    /\ pc = "served"
    /\ served.response.nextCalls = 1
    /\ Len(plugin.require.authority) = 1
    /\ plugin.require.authority[1].value = Str(<<"t", "e", "s", "t", ".", "e", "x", "a", "m", "p", "l", "e", ".", "c", "o", "m">>)
    /\ Decode(served.result.extracted.token).claims.authority = Str(<<"*", ".", "e", "x", "a", "m", "p", "l", "e", ".", "c", "o", "m">>)

\* C15: a wildcard in the requirement is glob-evaluated against the
\* claim, so the requirement "*.example.com" accepts the string claim
\* "test.example.com".
C15_RequirementWildcard ==
    (/\ pc = "served"
     /\ served.result.parse.err = ""
     /\ served.result.extracted.token # <<>>
     /\ Len(plugin.require.authority) = 1
     /\ plugin.require.authority[1].value = Str(<<"*", ".", "e", "x", "a", "m", "p", "l", "e", ".", "c", "o", "m">>)
     /\ Decode(served.result.extracted.token).claims.authority = Str(<<"t", "e", "s", "t", ".", "e", "x", "a", "m", "p", "l", "e", ".", "c", "o", "m">>)) =>
        served.response.nextCalls = 1

\* C16 as stated: a requirement matches an array claim if and only if it
\* matches some element, and an object claim if and only if some key matches
\* as a string claim with a value that satisfies the nested part (no nested
\* part accepts any value); the claim is accepted when one of its
\* requirements matches.
C16_SomeMember ==
    (/\ pc = "served"
     /\ served.result.parse.err = ""
     /\ served.result.extracted.token # <<>>
     /\ \A i \in DOMAIN plugin.require.authority :
            plugin.require.authority[i].kind = "value"
     /\ Decode(served.result.extracted.token).claims.authority.t \in {"arr", "obj"}) =>
        LET claim == Decode(served.result.extracted.token).claims.authority
            requirements == plugin.require.authority
            StringMember(requirement, text) ==
                /\ requirement.value.t = "str"
                /\ StringMatches(requirement.value.v, text)
            Member(requirement) ==
                IF claim.t = "arr"
                THEN \E j \in DOMAIN claim.v :
                        /\ claim.v[j].t = "str"
                        /\ StringMember(requirement, claim.v[j].v)
                ELSE \E key \in DOMAIN claim.v :
                        /\ StringMember(requirement, key)
                        /\ \/ requirement.nested = Nil
                           \/ ValidateNested(requirement.nested, claim.v[key])
        IN served.response.nextCalls = 1 <=>
              \E i \in DOMAIN requirements : Member(requirements[i])

\* C16, amended: a requirement matches an array or object claim if it matches
\* some member, as above, and otherwise only if the requirement's value is
\* itself an array or object that deep-equals the whole claim.
C16_SomeMemberOrEqual ==
    (/\ pc = "served"
     /\ served.result.parse.err = ""
     /\ served.result.extracted.token # <<>>
     /\ \A i \in DOMAIN plugin.require.authority :
            plugin.require.authority[i].kind = "value"
     /\ Decode(served.result.extracted.token).claims.authority.t \in {"arr", "obj"}) =>
        LET claim == Decode(served.result.extracted.token).claims.authority
            requirements == plugin.require.authority
            StringMember(requirement, text) ==
                /\ requirement.value.t = "str"
                /\ StringMatches(requirement.value.v, text)
            Member(requirement) ==
                IF claim.t = "arr"
                THEN \E j \in DOMAIN claim.v :
                        /\ claim.v[j].t = "str"
                        /\ StringMember(requirement, claim.v[j].v)
                ELSE \E key \in DOMAIN claim.v :
                        /\ StringMember(requirement, key)
                        /\ \/ requirement.nested = Nil
                           \/ ValidateNested(requirement.nested, claim.v[key])
        IN served.response.nextCalls = 1 <=>
              \E i \in DOMAIN requirements :
                 \/ Member(requirements[i])
                 \/ /\ requirements[i].value.t \in {"arr", "obj"}
                    /\ DeepEqual(claim, requirements[i].value)

\* An array claim was accepted for its element "*.example.com" under the
\* requirement "test.example.com"
C16_Witness ==
    /\ pc = "served"
    /\ served.response.nextCalls = 1
    /\ Len(plugin.require.authority) = 1
    /\ plugin.require.authority[1].value = Str(<<"t", "e", "s", "t", ".", "e", "x", "a", "m", "p", "l", "e", ".", "c", "o", "m">>)
    /\ Decode(served.result.extracted.token).claims.authority
          = Arr(<<Str(<<"*", ".", "e", "x", "a", "m", "p", "l", "e", ".", "c", "o", "m">>), Str(<<"o", "t", "h", "e", "r", ".", "e", "x", "a", "m", "p", "l", "e", ".", "c", "o", "m">>)>>)

\* C17: the nested comparison is a cross-product OR.  Under requirements
\* with a nested part, an object claim is accepted if and only if, for a key
\* that matches, some value of the nested requirement (a list, or one value
\* taken as a list of one) equals some value supplied under the key (a list,
\* or one value taken as a list of one, null supplying nothing).  So
\* {"test.example.com": ["user", "admin"]} accepts {"*.example.com": "user"}
\* and {"*.example.com": ["other", "admin"]} and rejects
\* {"*.example.com": "guest"}.
C17_NestedCrossProduct ==
    (/\ pc = "served"
     /\ served.result.parse.err = ""
     /\ served.result.extracted.token # <<>>
     /\ \A i \in DOMAIN plugin.require.authority :
            /\ plugin.require.authority[i].kind = "value"
            /\ plugin.require.authority[i].value.t = "str"
            /\ plugin.require.authority[i].nested # Nil
     /\ Decode(served.result.extracted.token).claims.authority.t = "obj") =>
        LET claim == Decode(served.result.extracted.token).claims.authority.v
            requirements == plugin.require.authority
            List(value) == IF value.t = "arr" THEN Range(value.v)
                           ELSE IF value.t = "nil" THEN {}
                           ELSE {value}
        IN served.response.nextCalls = 1 <=>
              \E i \in DOMAIN requirements : \E key \in DOMAIN claim :
                 /\ StringMatches(requirements[i].value.v, key)
                 /\ List(requirements[i].nested) \cap List(claim[key]) # {}

\* The claim {"*.example.com": ["other", "admin"]} was accepted under the
\* requirement {"test.example.com": ["user", "admin"]}
C17_Witness ==
    /\ pc = "served"
    /\ served.response.nextCalls = 1
    /\ Len(plugin.require.authority) = 1
    /\ plugin.require.authority[1].nested = Arr(<<Str(<<"u", "s", "e", "r">>), Str(<<"a", "d", "m", "i", "n">>)>>)
    /\ Decode(served.result.extracted.token).claims.authority
          = Obj(<<"*", ".", "e", "x", "a", "m", "p", "l", "e", ".", "c", "o", "m">> :> Arr(<<Str(<<"o", "t", "h", "e", "r">>), Str(<<"a", "d", "m", "i", "n">>)>>))

\* C20: a requirement that is a template of one variable is compared after
\* its expansion: a variable of the request (Host) has the request's value
\* even when the environment defines the name, another name has the
\* environment's value, and a string claim is accepted if and only if it
\* matches the expanded text.  When the variable is undefined nothing
\* matches: the request is answered 401 when the token is stale (freshness
\* set, iat older than it) and 403 otherwise, never 500, and is not
\* forwarded.
C20_TemplateRequirement ==
    (/\ pc = "served"
     /\ served.result.parse.err = ""
     /\ served.result.extracted.token # <<>>
     /\ Len(plugin.require.authority) = 1
     /\ plugin.require.authority[1].kind = "template"
     /\ Len(plugin.require.authority[1].value) = 1
     /\ plugin.require.authority[1].value[1].k = "var") =>
        LET claims == Decode(served.result.extracted.token).claims
            name == plugin.require.authority[1].value[1].s
            defined == name = VarHost \/ name \in DOMAIN plugin.environment
            text == IF name = VarHost THEN served.request.host
                    ELSE plugin.environment[name]
            stale == /\ plugin.freshness # 0
                     /\ "iat" \in DOMAIN claims
                     /\ claims.iat.t = "num"
                     /\ served.now - claims.iat.v.whole > plugin.freshness
        IN /\ (defined /\ claims.authority.t = "str") =>
                (served.response.nextCalls = 1
                    <=> StringMatches(text, claims.authority.v))
           /\ ~defined =>
                /\ served.response.nextCalls = 0
                /\ served.response.presentation = "error"
                /\ served.result.status = IF stale THEN StatusUnauthorized
                                          ELSE StatusForbidden
                /\ served.response.code = served.result.status

\* C18: $and and $or in a requirement are combinators.  For a requirement
\* {$and: [...]} or {$or: [...]} whose members are strings or combinators of
\* strings, a claim is valid if and only if it has every member of an $and
\* and some member of an $or, member combinators being read the same way.
\* A claim has a string when it is the string, a list with the string or an
\* object with the string as a key; so an object claim with the key $and or
\* $or is not matched by the combinator's name.
C18_Combinators ==
    (/\ pc = "served"
     /\ served.require.roles.t = "obj"
     /\ DOMAIN served.require.roles.v \in { { <<"$", "a", "n", "d">> }, { <<"$", "o", "r">> } }) =>
        LET claim == served.claims.roles
            Leaf(member) ==
                /\ member.t = "str"
                /\ CASE claim.t = "arr" -> member \in Range(claim.v)
                     [] claim.t = "obj" -> member.v \in DOMAIN claim.v
                     [] OTHER -> member = claim
            Members(combinator) ==
                combinator.v[CHOOSE name \in DOMAIN combinator.v : TRUE].v
            All(combinator) == DOMAIN combinator.v = { <<"$", "a", "n", "d">> }
            Inner(member) ==
                IF member.t = "obj"
                THEN IF All(member)
                     THEN \A i \in DOMAIN Members(member) : Leaf(Members(member)[i])
                     ELSE \E i \in DOMAIN Members(member) : Leaf(Members(member)[i])
                ELSE Leaf(member)
            Outer(combinator) ==
                IF All(combinator)
                THEN \A i \in DOMAIN Members(combinator) : Inner(Members(combinator)[i])
                ELSE \E i \in DOMAIN Members(combinator) : Inner(Members(combinator)[i])
        IN served.valid <=> Outer(served.require.roles)

\* C19: requirements nest to any depth.  A requirement
\* {nested: {roles: [v1, v2]}}, or the same one level deeper under the key
\* deep, is satisfied by an object claim exactly when the claim has under
\* the same keys a roles value that is v1 or v2 or a list that contains one
\* of them; the other keys of the inner objects do not matter.
C19_DeepNesting ==
    (/\ pc = "served"
     /\ served.require.roles.t = "obj"
     /\ DOMAIN served.require.roles.v = { <<"n", "e", "s", "t", "e", "d">> }) =>
        LET required == served.require.roles.v[<<"n", "e", "s", "t", "e", "d">>]
            deep == <<"d", "e", "e", "p">> \in DOMAIN required.v
            allowed == Range((IF deep THEN required.v[<<"d", "e", "e", "p">>] ELSE required).v[<<"r", "o", "l", "e", "s">>].v)
            claim == served.claims.roles
            Under(value, name) ==
                IF value.t = "obj" /\ name \in DOMAIN value.v THEN value.v[name] ELSE Nil
            roles == Under(IF deep THEN Under(Under(claim, <<"n", "e", "s", "t", "e", "d">>), <<"d", "e", "e", "p">>)
                           ELSE Under(claim, <<"n", "e", "s", "t", "e", "d">>), <<"r", "o", "l", "e", "s">>)
        IN served.valid <=>
              \/ roles \in allowed
              \/ roles.t = "arr" /\ Range(roles.v) \cap allowed # {}

(***************************************************************************)
(* The key cache under concurrency.  Every request runs getKey in its own  *)
(* goroutine and fetchRoutine runs fetchAllKeys in another; the steps are  *)
(* the statements between two operations on plugin.lock or on the network. *)
(* A request that hangs is a goroutine that takes no further step.         *)
(***************************************************************************)
IssuerWild == <<"h", "t", "t", "p", "s", ":", "/", "/", "*", ".", "w">>
IssuerA == <<"h", "t", "t", "p", "s", ":", "/", "/", "a", ".", "w">>

\* The tokens of the key cache: no kid, a kid that is no string, the static
\* kid, the kid of the trusted issuer, of an issuer that is not trusted, of
\* an issuer that a pattern admits, and one whose iss is no string
CacheTokens ==
    { [header |-> jwt.header, claims |-> jwt.claims] :
        jwt \in { t \in JWTs : t.raw \in { <<"t", ".", "o", "k">>, <<"t", ".", "k", "i", "d", "n", "u", "m">>, <<"t", ".", "k", "0">>, <<"t", ".", "k", "1">>, <<"t", ".", "e", "v", "i", "l">> } } }
    \cup { [header |-> Header(Str(Kid1)), claims |-> [iss |-> Str(IssuerA)]],
           [header |-> Header(Str(Kid1)), claims |-> [iss |-> Num(1, <<>>)]] }

CacheConfigs ==
    { [CreateConfig EXCEPT !.Secret = setup.Secret, !.Secrets = setup.Secrets,
                           !.Issuers = setup.Issuers, !.RefreshKeysInterval = EveryNanosecond] :
        setup \in { [Secret |-> <<>>, Secrets |-> (Kid0 :> <<"K", "0">>), Issuers |-> <<Issuer1, IssuerWild>>],
                    [Secret |-> <<"S">>, Secrets |-> EmptyMap, Issuers |-> <<IssuerWild, Issuer1>>] } }

InitCache == InitWith(CacheConfigs)

NextCache ==
    \/ \E token \in CacheTokens : GoGetKey(Requester, token)
    \/ \E g \in Goroutines : GoRLock(g)
    \/ \E g \in Goroutines : GoLookup(g)
    \/ \E g \in Goroutines, answer \in Discoveries : GoDiscovery(g, answer)
    \/ \E g \in Goroutines, answer \in JWKSAnswers : GoJWKS(g, answer)
    \/ \E g \in Goroutines : GoLockWait(g)
    \/ \E g \in Goroutines : GoStore(g)
    \/ \E g \in Goroutines : GoUnlock(g)
    \/ \E g \in Goroutines : GoReturn(g)
    \/ GoFetchAllKeys
    \/ GoNextIssuer

SpecCache == InitCache /\ [][NextCache]_vars

(***************************************************************************)
(* Requests against the key cache: a static key, a trusted issuer, with    *)
(* and without a fixed secret, and every answer of the network.            *)
(***************************************************************************)
KeyConfigs ==
    { [CreateConfig EXCEPT !.Secret = setup.Secret, !.Secrets = setup.Secrets,
                           !.Issuers = setup.Issuers, !.RefreshKeysInterval = EveryNanosecond] :
        setup \in { [Secret |-> <<>>, Secrets |-> (Kid0 :> <<"K", "0">>), Issuers |-> <<Issuer1>>],
                    [Secret |-> <<>>, Secrets |-> EmptyMap, Issuers |-> <<Issuer1>>],
                    [Secret |-> <<"S">>, Secrets |-> EmptyMap, Issuers |-> <<Issuer1>>],
                    [Secret |-> <<>>, Secrets |-> (Kid0 :> <<"K", "0">>), Issuers |-> <<>>] } }

KeyRequests ==
    { Request((Authorization :> <<Bearer \o text>>), <<>>, <<>>) :
        text \in { <<"t", ".", "o", "k">>, <<"t", ".", "k", "i", "d", "n", "u", "m">>, <<"t", ".", "k", "0">>, <<"t", ".", "k", "1">>, <<"t", ".", "e", "v", "i", "l">> } }

\* The requests that a second goroutine serves at the same time
ConcurrentRequests ==
    { Request((Authorization :> <<Bearer \o <<"t", ".", "k", "1">> >>), <<>>, <<>>) }

InitKeys == InitWith(KeyConfigs)

NextKeys ==
    \/ \E request \in KeyRequests : ServeHTTP(Requester, request)
    \/ \E request \in ConcurrentRequests : ServeHTTP("r2", request)
    \/ \E g \in Goroutines : GoRLock(g)
    \/ \E g \in Goroutines : GoLookup(g)
    \/ \E g \in Goroutines, answer \in Discoveries : GoDiscovery(g, answer)
    \/ \E g \in Goroutines, answer \in JWKSAnswers : GoJWKS(g, answer)
    \/ \E g \in Goroutines : GoLockWait(g)
    \/ \E g \in Goroutines : GoStore(g)
    \/ \E g \in Goroutines : GoUnlock(g)
    \/ \E g \in Goroutines : Deliver(g)
    \/ \E g \in Requesters : Complete(g)

SpecKeys == InitKeys /\ [][NextKeys]_vars

\* The scheduler runs every goroutine that can take a step; a goroutine
\* that waits for rw.w inside Lock() gets it if it is free again and again
\* (sync.Mutex starves no waiter); a request on the network may never return
FairCache ==
    \A g \in Goroutines :
        /\ WF_vars(GoLookup(g))
        /\ WF_vars(GoRLock(g))
        /\ WF_vars(GoStore(g))
        /\ WF_vars(GoUnlock(g))
        /\ WF_vars(GoReturn(g))
        /\ SF_vars(GoLockWait(g))

SpecCacheFair == SpecCache /\ FairCache /\ WF_vars(GoNextIssuer)

(***************************************************************************)
(* Properties of the key cache.                                            *)
(***************************************************************************)
\* The source a fetchKeys in progress stores its key set under
SourceOf(g) == keySetURL(goroutines[g].issuer, goroutines[g].discovery)

\* C21: when fetchKeys has stored a key set for source S (the state in which
\* it still holds the write lock), every kid that was in the cache for S
\* alone and is not in the new key set is out of the cache, and every kid
\* that another source has (the static keys of "internal" included) is
\* still in the cache
C21_PurgeOnFetch ==
    \A g \in Goroutines : goroutines[g].pc = "stored" =>
        LET old == goroutines[g].before
            Sources(kid) == { source \in DOMAIN old.issuerKeys :
                                kid \in DOMAIN old.issuerKeys[source] }
        IN \A kid \in DOMAIN old.keys :
              /\ (Sources(kid) \subseteq {SourceOf(g)} /\ kid \notin DOMAIN issuerKeys[SourceOf(g)])
                    => kid \notin DOMAIN keys
              /\ Sources(kid) \ {SourceOf(g)} # {} => kid \in DOMAIN keys

\* A fetch has removed k1, which only its source had, and kept the static k0
C21_Witness ==
    \E g \in Goroutines :
        /\ goroutines[g].pc = "stored"
        /\ Kid1 \in DOMAIN goroutines[g].before.keys
        /\ \A source \in DOMAIN goroutines[g].before.issuerKeys :
              Kid1 \in DOMAIN goroutines[g].before.issuerKeys[source] => source = SourceOf(g)
        /\ Kid1 \notin DOMAIN keys
        /\ Kid0 \in DOMAIN keys

\* C22: a kid in the cache leaves it only in the step in which a fetchKeys
\* stores, for a source that listed the kid, a key set without it (a failed
\* fetch, a fetch for another source and a request never remove it), and
\* as long as it is in the cache every lookup of it returns its key
C22_KeyStays ==
    [][\A kid \in DOMAIN keys :
          /\ kid \notin DOMAIN keys' =>
                \E g \in Goroutines :
                    /\ goroutines[g].pc = "locking"
                    /\ goroutines'[g].pc = "stored"
                    /\ SourceOf(g) \in DOMAIN issuerKeys
                    /\ kid \in DOMAIN issuerKeys[SourceOf(g)]
                    /\ kid \notin DOMAIN goroutines[g].jwks
          /\ \A g \in Goroutines :
                (/\ goroutines[g].pc = "lookup"
                 /\ goroutines'[g] # goroutines[g]
                 /\ goroutines[g].token.header["kid"] = Str(kid)) =>
                    /\ goroutines'[g].pc = "returned"
                    /\ goroutines'[g].key = keys[kid]
                    /\ goroutines'[g].err = ""]_vars

\* k1 was fetched, the refresher's last fetch failed, and a request for k1
\* has been answered from the cache without a fetch
C22_Witness ==
    /\ Kid1 \in DOMAIN keys
    /\ goroutines[Refresher].pc = "next"
    /\ goroutines[Refresher].err = ErrFetch
    /\ \E g \in Requesters :
          /\ goroutines[g].pc = "returned"
          /\ goroutines[g].key = PublicKey("rsa", <<"K", "1">>)
          /\ goroutines[g].fetches = 0

\* The token of the request ServeHTTP has handled
ServedToken == Decode(served.result.extracted.token)

\* C23: a lookup of getKey that finds the token's kid in the cache returns
\* the cached key with a nil error, whatever the iss claim of the token;
\* when it is the first lookup of the request, no fetchKeys was called and no
\* URL was requested; the step leaves keys and issuerKeys as they were; and
\* the request is then verified with that key
C23_CacheHit ==
    /\ [][\A g \in Requesters :
            (/\ goroutines[g].pc = "lookup"
             /\ goroutines'[g] # goroutines[g]
             /\ goroutines[g].token.header["kid"].t = "str"
             /\ goroutines[g].token.header["kid"].v \in DOMAIN keys) =>
                /\ goroutines'[g].pc = "returned"
                /\ goroutines'[g].key = keys[goroutines[g].token.header["kid"].v]
                /\ goroutines'[g].err = ""
                /\ goroutines'[g].fetches = goroutines[g].fetches
                /\ goroutines'[g].requests = goroutines[g].requests
                /\ ~goroutines[g].looped =>
                      /\ goroutines'[g].fetches = 0
                      /\ goroutines'[g].requests = <<>>
                /\ keys' = keys
                /\ issuerKeys' = issuerKeys]_vars
    /\ [](\A g \in Requesters :
            (goroutines[g].pc = "returned" /\ goroutines[g].hit) =>
                /\ goroutines[g].key # NoKey
                /\ goroutines[g].err = ""
                /\ goroutines[g].lookups = 1 => goroutines[g].fetches = 0)
    /\ []((pc = "served" /\ served.result.parse.key.hit) =>
            /\ served.result.parse.key.key # NoKey
            /\ served.result.parse.key.err = ""
            /\ ~served.result.parse.key.panic
            /\ served.result.parse.key.lookups = 1 =>
                  served.result.parse.key.fetched = <<>>)

\* The token of an issuer that is not trusted names the cached kid k1 and
\* gets its key without a fetch
C23_Witness ==
    /\ pc = "served"
    /\ served.result.extracted.token = <<"t", ".", "e", "v", "i", "l">>
    /\ served.result.parse.key.key = PublicKey("rsa", <<"K", "1">>)
    /\ served.result.parse.key.fetched = <<>>
    /\ served.result.parse.key.hit
    /\ served.result.parse.key.lookups = 1
    /\ Kid1 \in DOMAIN keys

\* C24: when getKey has run for a token without a kid, or with a string kid
\* that its last lookup did not find in the cache, it has returned the fixed
\* secret with a nil error if there is one, and otherwise a non-nil error
\* and no key, never a nil error without a key
C24_FallbackOrError ==
    (/\ pc = "served"
     /\ served.result.parse.err \notin {"token is malformed", "signing method is invalid"}
     /\ ~served.result.parse.key.panic
     /\ ~served.result.parse.key.hit) =>
        IF plugin.secret # NoKey
        THEN /\ served.result.parse.key.key = plugin.secret
             /\ served.result.parse.key.err = ""
        ELSE /\ served.result.parse.key.key = NoKey
             /\ served.result.parse.key.err # ""

\* The token's iss is a string that, with a trailing slash, matches one of
\* the configured issuer patterns
Trusted(token) ==
    /\ "iss" \in DOMAIN token.claims
    /\ token.claims["iss"].t = "str"
    /\ LET iss == token.claims["iss"].v
           issuer == IF iss # <<>> /\ iss[Len(iss)] = "/" THEN iss ELSE iss \o <<"/">>
       IN \E i \in DOMAIN plugin.issuers : FnMatch(plugin.issuers[i], issuer)

\* getKey has ended in its fallback: the fixed secret, or an error and no key
FallbackResult(state) ==
    IF plugin.secret # NoKey
    THEN state.key = plugin.secret /\ state.err = ""
    ELSE state.key = NoKey /\ state.err \in {ErrNoSecret, ErrIssuerNotValid}

\* Every fetch is for a trusted issuer: a request calls fetchKeys only after
\* a lookup of its string kid has missed and for the canonical iss of its
\* token, which matches a configured pattern; the refresher only for a
\* configured issuer without '*'; every URL requested is under that issuer or
\* is the jwks_uri of its discovery document; and a token whose iss is
\* missing, no string or matches no pattern causes no request at all
FetchesOnlyTrusted(state, g) ==
    /\ state.fetches > 0 =>
          /\ \A i \in DOMAIN state.requests :
                state.requests[i] \in { configURL(state.issuer),
                                        state.issuer \o WellKnownJWKS, JWKSURI1 }
          /\ g \in Requesters =>
                /\ Trusted(state.token)
                /\ state.token.header["kid"].t = "str"
                /\ state.lookups >= 1
                /\ state.issuer \in { state.token.claims["iss"].v,
                                      state.token.claims["iss"].v \o <<"/">> }
          /\ g = Refresher =>
                /\ \E i \in DOMAIN plugin.issuers : plugin.issuers[i] = state.issuer
                /\ \A i \in DOMAIN state.issuer : state.issuer[i] # "*"
    /\ (g \in Requesters /\ ~Trusted(state.token)) =>
          /\ state.fetches = 0
          /\ state.requests = <<>>

\* getKey has returned for a token whose first lookup missed and whose iss
\* is missing, no string or matches no pattern
UntrustedMiss(state, g) ==
    /\ g \in Requesters
    /\ state.pc = "returned"
    /\ state.lookups >= 1
    /\ state.looped \/ ~state.hit
    /\ ~Trusted(state.token)

\* C25 as stated: every fetch is for a trusted issuer, and a token with no
\* iss or with an iss that matches no pattern causes no request and ends in
\* the fallback
C25_TrustedIssuerOnly ==
    \A g \in Goroutines : goroutines[g].pc # "idle" =>
        /\ FetchesOnlyTrusted(goroutines[g], g)
        /\ UntrustedMiss(goroutines[g], g) =>
              /\ ~goroutines[g].hit
              /\ FallbackResult(goroutines[g])

\* C25, amended: every fetch is for a trusted issuer and a token with no iss
\* or with an iss that matches no pattern causes no request; without a
\* string iss getKey ends in the fallback right after the miss, and with an
\* iss that matches no pattern it looks the kid up once more and ends in the
\* fallback unless the kid is in the cache by then
C25_TrustedIssuerOrRetry ==
    \A g \in Goroutines : goroutines[g].pc # "idle" =>
        /\ FetchesOnlyTrusted(goroutines[g], g)
        /\ UntrustedMiss(goroutines[g], g) =>
              IF "iss" \in DOMAIN goroutines[g].token.claims
                 /\ goroutines[g].token.claims["iss"].t = "str"
              THEN /\ goroutines[g].lookups = 2
                   /\ IF goroutines[g].hit
                      THEN goroutines[g].err = "" /\ goroutines[g].key # NoKey
                      ELSE FallbackResult(goroutines[g])
              ELSE /\ goroutines[g].lookups = 1
                   /\ ~goroutines[g].hit
                   /\ FallbackResult(goroutines[g])

\* A token of an issuer that matches no pattern has caused no request; its
\* second lookup has found the kid, which the refresher stored in between
C25_Witness ==
    \E g \in Requesters :
        /\ goroutines[g].pc = "returned"
        /\ goroutines[g].token.claims = [aud |-> Str(ClaimTest), iss |-> Str(IssuerEvil)]
        /\ goroutines[g].requests = <<>>
        /\ goroutines[g].fetches = 0
        /\ goroutines[g].lookups = 2
        /\ goroutines[g].key = PublicKey("rsa", <<"K", "1">>)

\* The step in which the key-set request of a fetchKeys fails: fetchKeys
\* returns the error after its two requests, without another attempt, and
\* keys and issuerKeys are what they were
FailedFetchStep ==
    [][\A g \in Goroutines :
          (goroutines[g].pc = "jwks" /\ goroutines'[g].pc # "jwks"
             /\ goroutines'[g].pc # "lock") =>
              /\ goroutines'[g].err = ErrFetch
              /\ Len(goroutines'[g].requests) = 2
              /\ goroutines'[g].fetches = 1
              /\ goroutines'[g].pc = "rlock"
              /\ goroutines'[g].looped
              /\ keys' = keys
              /\ issuerKeys' = issuerKeys]_vars

\* getKey returns the fetch error and no key, and the request is answered
\* 401 without reaching the next handler
FailedFetchRefused ==
    /\ served.result.parse.key.key = NoKey
    /\ served.result.parse.key.err = ErrFetch
    /\ served.result.status = StatusUnauthorized
    /\ served.response.code = StatusUnauthorized
    /\ served.response.nextCalls = 0

\* C26 as stated: a fetchKeys whose key-set request fails returns the error
\* without another attempt and leaves keys and issuerKeys as they were; the
\* request has called fetchKeys once, its second lookup misses, and without
\* a fixed secret it is answered 401
C26_FailedFetch ==
    /\ FailedFetchStep
    /\ []((pc = "served" /\ served.result.parse.key.fetchErr) =>
            /\ Len(served.result.parse.key.fetched) = 1
            /\ served.result.parse.key.lookups = 2
            /\ ~served.result.parse.key.hit
            /\ plugin.secret = NoKey => FailedFetchRefused)

\* C26, amended: a fetchKeys whose key-set request fails returns the error
\* without another attempt and leaves keys and issuerKeys as they were; the
\* request has called fetchKeys once and looks the kid up once more; unless
\* another fetch has stored the kid by then, the lookup misses and without a
\* fixed secret the request is answered 401
C26_FailedFetchOrStored ==
    /\ FailedFetchStep
    /\ []((pc = "served" /\ served.result.parse.key.fetchErr) =>
            /\ Len(served.result.parse.key.fetched) = 1
            /\ served.result.parse.key.lookups = 2
            /\ IF served.result.parse.key.hit
               THEN /\ served.result.parse.key.key # NoKey
                    /\ served.result.parse.key.err = ""
               ELSE plugin.secret = NoKey => FailedFetchRefused)

\* A fetch has failed for a plugin without a fixed secret whose cache holds
\* the static key and an earlier key set of the issuer; the answer is 401
C26_Witness ==
    /\ pc = "served"
    /\ served.result.parse.key.fetchErr
    /\ ~served.result.parse.key.hit
    /\ plugin.secret = NoKey
    /\ served.response.code = StatusUnauthorized
    /\ Kid0 \in DOMAIN keys
    /\ DOMAIN issuerKeys # {Internal}

\* C27: the first request of a fetchKeys is for the issuer's
\* .well-known/openid-configuration and, whatever its outcome, is followed
\* by the key-set request and by nothing else; the key-set request is for
\* the issuer's .well-known/jwks.json when the discovery request failed
\* and for the jwks_uri of the document when it succeeded
C27_DiscoveryFallback ==
    [][\A g \in Goroutines :
          /\ (goroutines[g].pc = "discovery" /\ goroutines'[g] # goroutines[g]) =>
                /\ goroutines[g].requests = <<>>
                /\ goroutines'[g].requests
                      = << goroutines[g].issuer \o <<".", "w", "e", "l", "l", "-", "k", "n", "o", "w", "n", "/", "o", "p", "e", "n", "i", "d", "-", "c", "o", "n", "f", "i", "g", "u", "r", "a", "t", "i", "o", "n">> >>
                /\ goroutines'[g].pc = "jwks"
                /\ goroutines'[g].err = goroutines[g].err
          /\ (goroutines[g].pc = "jwks" /\ goroutines'[g] # goroutines[g]) =>
                /\ goroutines'[g].requests
                      = Append(goroutines[g].requests,
                               IF goroutines[g].discovery.ok
                               THEN goroutines[g].discovery.jwksURI
                               ELSE goroutines[g].issuer \o <<".", "w", "e", "l", "l", "-", "k", "n", "o", "w", "n", "/", "j", "w", "k", "s", ".", "j", "s", "o", "n">>)
                /\ \/ goroutines'[g].pc = "lock"
                   \/ goroutines'[g].err = ErrFetch]_vars

\* A fetch whose discovery request failed has fetched the key set from the
\* well-known location and stored it
C27_Witness ==
    \E g \in Goroutines :
        /\ goroutines[g].pc = "stored"
        /\ ~goroutines[g].discovery.ok
        /\ goroutines[g].requests
              = << <<"h", "t", "t", "p", "s", ":", "/", "/", "i", "1", "/", ".", "w", "e", "l", "l", "-", "k", "n", "o", "w", "n", "/", "o", "p", "e", "n", "i", "d", "-", "c", "o", "n", "f", "i", "g", "u", "r", "a", "t", "i", "o", "n">>,
                   <<"h", "t", "t", "p", "s", ":", "/", "/", "i", "1", "/", ".", "w", "e", "l", "l", "-", "k", "n", "o", "w", "n", "/", "j", "w", "k", "s", ".", "j", "s", "o", "n">> >>
        /\ <<"h", "t", "t", "p", "s", ":", "/", "/", "i", "1", "/", ".", "w", "e", "l", "l", "-", "k", "n", "o", "w", "n", "/", "j", "w", "k", "s", ".", "j", "s", "o", "n">> \in DOMAIN issuerKeys
        /\ Kid1 \in DOMAIN keys

\* C28: every kid of plugin.keys is in the key set of at least one source of
\* plugin.issuerKeys
C28_EveryKeyIssued ==
    \A kid \in DOMAIN keys :
        \E source \in DOMAIN issuerKeys : kid \in DOMAIN issuerKeys[source]

\* The cache holds the static key and a fetched key, and two sources of the
\* same issuer, one of which no longer lists the fetched key; a second
\* fetch waits for the write lock that the first one holds
C28_Witness ==
    /\ DOMAIN keys = {Kid0, Kid1}
    /\ { JWKSURI1, <<"h", "t", "t", "p", "s", ":", "/", "/", "i", "1", "/", ".", "w", "e", "l", "l", "-", "k", "n", "o", "w", "n", "/", "j", "w", "k", "s", ".", "j", "s", "o", "n">> } \subseteq DOMAIN issuerKeys
    /\ \E source \in DOMAIN issuerKeys : source # Internal /\ issuerKeys[source] = EmptyMap
    /\ \E g, h \in Goroutines : goroutines[g].pc = "stored" /\ goroutines[h].pc = "lock"

\* C29: within one getKey call fetchKeys is called at most once and the
\* cache is read at most twice; after the call of fetchKeys has returned,
\* with or without an error, the cache is read exactly once more and getKey
\* returns (it never enters fetchKeys again); a request for a kid that the
\* key set no longer has costs one key-set request
C29_Counts ==
    \A g \in Requesters : goroutines[g].pc # "idle" =>
        /\ goroutines[g].fetches <= 1
        /\ goroutines[g].lookups <= 2
        /\ Len(goroutines[g].requests) <= 2 * goroutines[g].fetches
        /\ goroutines[g].looped =>
              /\ goroutines[g].pc \in {"rlock", "rwait", "lookup", "returned"}
              /\ goroutines[g].lookups = IF goroutines[g].pc = "returned" THEN 2 ELSE 1
        /\ (goroutines[g].pc = "returned" /\ goroutines[g].fetches = 1) =>
              /\ goroutines[g].lookups = 2
              /\ Len(goroutines[g].requests) = 2

\* C29: once fetchKeys has returned to getKey, getKey returns
C29_Terminates ==
    \A g \in Requesters :
        (goroutines[g].pc = "rlock" /\ goroutines[g].looped /\ goroutines[g].fetches = 1)
            ~> (goroutines[g].pc = "returned")

\* The goroutines that hold plugin.lock and will release it with their next
\* step, and those that are inside RLock() or inside Lock() and wait
Holders == { g \in Goroutines : goroutines[g].pc \in {"lookup", "stored"} }
Waiters == { g \in Goroutines : goroutines[g].pc \in {"rwait", "lock", "locking"} }

\* C30: the lock is held only by a goroutine that is at the map lookup (or
\* is about to return from RLock() with the wake-up of an Unlock()) or at
\* the store of fetchKeys, never by one with a request in progress; a
\* goroutine that wants to read is not kept waiting while the only fetches
\* are still on the network; and whenever a goroutine waits for the lock,
\* either some goroutine holds it and is about to release it or one of the
\* waiting goroutines can take it
C30_LockDiscipline ==
    /\ lock.readers
          = Cardinality({ g \in Goroutines : goroutines[g].pc = "lookup" }) + lock.sem
    /\ lock.writer <=> \E g \in Goroutines : goroutines[g].pc = "stored"
    /\ (\A h \in Goroutines : goroutines[h].pc \notin {"locking", "stored"}) =>
          (~lock.writer /\ ~lock.announced /\ Cardinality(Blocked) = lock.sem)
    /\ Waiters # {} =>
          \/ Holders # {}
          \/ \E g \in Waiters :
                \/ goroutines[g].pc = "rwait" /\ lock.sem > 0
                \/ goroutines[g].pc = "lock" /\ ~lock.announced
                \/ goroutines[g].pc = "locking" /\ lock.readers = 0

(***************************************************************************)
(* Properties of the headers that reach the next handler.                  *)
(***************************************************************************)
\* C39: on a request that is forwarded with a valid token, every header of
\* headerMap whose claim the token has carries exactly one value, the text
\* of the claim, whatever the client sent under that name
C39_OnlyClaimValue ==
    (/\ pc = "served"
     /\ ~served.result.panic
     /\ served.result.err = ""
     /\ served.result.extracted.token # <<>>
     /\ served.response.nextCalls = 1) =>
        \A name \in DOMAIN plugin.headerMap :
            plugin.headerMap[name] \in DOMAIN ServedToken.claims =>
                /\ CanonicalMIMEHeaderKey(name) \in DOMAIN served.result.request.header
                /\ served.result.request.header[CanonicalMIMEHeaderKey(name)]
                      = << ClaimHeaderValue(ServedToken.claims[plugin.headerMap[name]]) >>

\* C40: with removeMissingHeaders, a forwarded request carries no header of
\* headerMap whose claim is missing, be it that the token lacks the claim or
\* that the request was forwarded without a token under optional
C40_NoUnbackedHeader ==
    (/\ pc = "served"
     /\ ~served.result.panic
     /\ served.response.nextCalls = 1
     /\ plugin.removeMissingHeaders) =>
        \A name \in DOMAIN plugin.headerMap :
            (\/ served.result.extracted.token = <<>>
             \/ plugin.headerMap[name] \notin DOMAIN ServedToken.claims) =>
                CanonicalMIMEHeaderKey(name) \notin DOMAIN served.result.request.header

(***************************************************************************)
(* The failure presentations with either redirect template configured,     *)
(* the forbidden one alone included.                                       *)
(***************************************************************************)
RedirectConfigs ==
    { [CreateConfig EXCEPT !.Secret = <<"S">>, !.Require = [aud |-> Str(ClaimTest)],
                           !.Optional = optional, !.Freshness = freshness,
                           !.RedirectUnauthorized = redirect[1],
                           !.RedirectForbidden = redirect[2]] :
        optional \in BOOLEAN, freshness \in {0, 1},
        redirect \in { << <<>>, RedirectDenied >>, << <<>>, RedirectBad >>,
                       <<RedirectLogin, <<>> >>, <<RedirectLogin, RedirectDenied>>,
                       <<RedirectBad, RedirectDenied>> } }

RedirectRequests ==
    LET built ==
          { NewRequest(method, path, rawQuery, authorization @@ contentType, <<>>) :
              method \in { MethodGet, MethodHead, MethodPost },
              path \in { <<"/", "h", "o", "m", "e">>, <<>> },
              rawQuery \in { <<>>, <<"a", "=", "1">> },
              authorization \in { EmptyMap }
                  \cup { (Authorization :> <<Bearer \o text>>) :
                          text \in { <<"t", ".", "o", "k">>, <<"t", ".", "o", "t", "h", "e", "r">>, <<"t", ".", "i", "a", "t">>, <<"t", ".", "e", "x", "p">>, <<"t", ".", "b", "a", "d", "s", "i", "g">> } },
              contentType \in { EmptyMap, (ContentType :> << <<"a", "p", "p", "l", "i", "c", "a", "t", "i", "o", "n", "/", "g", "r", "p", "c">> >>) } }
    IN built \cup { ServerRequest(request) : request \in { r \in built : r.url.path # <<>> } }
             \cup { TraefikRequest(request) : request \in built }

InitRedirect == InitWith(RedirectConfigs)

NextRedirect ==
    \/ \E request \in RedirectRequests : ServeHTTP(Requester, request)
    \/ \E g \in Requesters : Complete(g)
    \/ Tick

SpecRedirect == InitRedirect /\ [][NextRedirect]_vars

\* C34: with at least one of the two redirect templates configured, a failed
\* request is answered with a 302 or, when the template does not expand, a
\* 500, never with the plain or gRPC presentation, and a Forbidden outcome
\* with the forbidden template configured goes to that template's expansion
C34_AlwaysRedirected ==
    (/\ pc = "served"
     /\ ~served.result.panic
     /\ served.result.err # ""
     /\ (~plugin.redirectUnauthorized.nil \/ ~plugin.redirectForbidden.nil)) =>
        /\ served.response.presentation \in {"redirect", "internal"}
        /\ served.response.code \in {StatusFound, StatusInternalServerError}
        /\ served.response.nextCalls = 0
        /\ (served.result.status = StatusForbidden /\ ~plugin.redirectForbidden.nil) =>
              LET url == expandTemplate(plugin.redirectForbidden,
                                        NewTemplateVariables(plugin, served.request))
              IN url.ok =>
                    /\ served.response.code = StatusFound
                    /\ Location \in DOMAIN served.response.header
                    /\ served.response.header[Location] = url.text

(***************************************************************************)
(* A statically configured kid that an issuer's key set also lists, with   *)
(* other key material.                                                     *)
(***************************************************************************)
StaticConfigs ==
    { [CreateConfig EXCEPT !.Secret = secret, !.Secrets = (Kid0 :> <<"K", "0">>),
                           !.Issuers = <<Issuer1>>,
                           !.RefreshKeysInterval = EveryNanosecond] : secret \in {<<>>, <<"S">>} }

\* The answers to the key-set request: the issuer lists the static kid too
StaticJWKSAnswers ==
    { JWKSFails }
    \cup { [ok |-> TRUE, keys |-> set] :
             set \in { EmptyMap, (Kid1 :> PublicKey("rsa", <<"K", "1">>)), (Kid0 :> PublicKey("rsa", <<"K", "X">>)),
                       (Kid0 :> PublicKey("rsa", <<"K", "X">>)) @@ (Kid1 :> PublicKey("rsa", <<"K", "1">>)) } }

StaticRequests ==
    { Request((Authorization :> <<Bearer \o text>>), <<>>, <<>>) :
        text \in { <<"t", ".", "o", "k">>, <<"t", ".", "k", "0">>, <<"t", ".", "k", "1">> } }

InitStatic == InitWith(StaticConfigs)

NextStatic ==
    \/ \E request \in StaticRequests : ServeHTTP(Requester, request)
    \/ \E g \in Goroutines : GoRLock(g)
    \/ \E g \in Goroutines : GoLookup(g)
    \/ \E g \in Goroutines, answer \in Discoveries : GoDiscovery(g, answer)
    \/ \E g \in Goroutines, answer \in StaticJWKSAnswers : GoJWKS(g, answer)
    \/ \E g \in Goroutines : GoLockWait(g)
    \/ \E g \in Goroutines : GoStore(g)
    \/ \E g \in Goroutines : GoUnlock(g)
    \/ \E g \in Goroutines : Deliver(g)
    \/ \E g \in Requesters : Complete(g)
    \/ GoFetchAllKeys
    \/ GoNextIssuer

SpecStatic == InitStatic /\ [][NextStatic]_vars

\* C35: the kid configured in Secrets resolves to the configured material
\* in every state, and a request whose token has that kid is verified with
\* it, whatever the issuers' key sets contained
C35_StaticKeyKept ==
    /\ Kid0 \in DOMAIN keys
    /\ keys[Kid0] = HMACKey(<<"K", "0">>)
    /\ (/\ pc = "served"
        /\ served.result.extracted.token = <<"t", ".", "k", "0">>
        /\ ~served.result.parse.key.panic) =>
            /\ served.result.parse.key.err = ""
            /\ served.result.parse.key.key = HMACKey(<<"K", "0">>)

\* C36: when a fetchKeys has stored a new key set for the one configured
\* issuer, under whichever URL it read it from, the cache resolves no kid
\* other than those of the new key set and the static ones: a kid the issuer
\* has removed is gone after that fetch
C36_RemovedKeyGone ==
    [][\A g \in Goroutines :
          (/\ goroutines[g].pc = "locking"
           /\ goroutines'[g].pc = "stored"
           /\ Len(plugin.issuers) = 1) =>
              \A kid \in DOMAIN keys' :
                  \/ kid \in DOMAIN goroutines[g].jwks
                  \/ kid \in DOMAIN issuerKeys'[Internal]]_vars

\* C37: when fetchKeys has stored a key set for a source (the state in which
\* it still holds the write lock) and another fetch, which received its key
\* set for that source later, had stored already, the cache holds for the
\* source the key set of that later fetch, as it did before this store
C37_LastSnapshotWins ==
    \A h \in Goroutines :
        (goroutines[h].pc = "stored" /\ goroutines[h].lost) =>
            issuerKeys[SourceOf(h)] = goroutines[h].before.issuerKeys[SourceOf(h)]

(***************************************************************************)
(* The critical section of fetchKeys statement by statement: Lock, the     *)
(* merge into keys, the replacement of the source's key set, the purge,    *)
(* with the lookups and the other fetches running beside it; one of the    *)
(* configurations has no issuer.                                           *)
(***************************************************************************)
NoIssuerConfig ==
    [CreateConfig EXCEPT !.Secret = <<>>, !.Secrets = (Kid0 :> <<"K", "0">>),
                         !.RefreshKeysInterval = EveryNanosecond]

StoreConfigs == CacheConfigs \cup { NoIssuerConfig }

\* The goroutines between Lock() and Unlock(), those that have yet to write,
\* and those that hold the read lock
InSection == { g \in Goroutines : goroutines[g].pc \in {"merge", "replace", "purge", "stored"} }
Writing == { g \in Goroutines : goroutines[g].pc \in {"merge", "replace", "purge"} }
Reading == { g \in Goroutines : goroutines[g].pc = "lookup" }

\* A Lock() that does not wait for the readers
GoLockAtOnce(g) ==
    /\ goroutines[g].pc = "locking"
    /\ lock' = [lock EXCEPT !.writer = TRUE]
    /\ goroutines' = [goroutines EXCEPT ![g].pc = "merge",
                         ![g].before = [keys |-> keys, issuerKeys |-> issuerKeys]]
    /\ UNCHANGED <<plugin, routine, keys, issuerKeys, now, pc, served>>

\* plugin.lock.Lock() returns, every read lock granted before the writer
\* announced itself having been released
GoLock(g) ==
    /\ goroutines[g].pc = "locking"
    /\ lock.readers = 0
    /\ lock' = [lock EXCEPT !.writer = TRUE]
    /\ goroutines' = [goroutines EXCEPT ![g].pc = "merge",
                         ![g].before = [keys |-> keys, issuerKeys |-> issuerKeys]]
    /\ UNCHANGED <<plugin, routine, keys, issuerKeys, now, pc, served>>

\* for keyID, key := range jwks { plugin.keys[keyID] = key }
GoMerge(g) ==
    /\ goroutines[g].pc = "merge"
    /\ LET jwks == goroutines[g].jwks
       IN keys' = [keyID \in DOMAIN keys \cup DOMAIN jwks |->
                      IF keyID \in DOMAIN jwks THEN jwks[keyID] ELSE keys[keyID]]
    /\ goroutines' = [goroutines EXCEPT ![g].pc = "replace"]
    /\ UNCHANGED <<plugin, routine, issuerKeys, now, pc, served, lock>>

\* plugin.issuerKeys[url] = the fetched key set
GoReplace(g) ==
    /\ goroutines[g].pc = "replace"
    /\ issuerKeys' = [source \in DOMAIN issuerKeys \cup {SourceOf(g)} |->
                         IF source = SourceOf(g) THEN goroutines[g].jwks
                         ELSE issuerKeys[source]]
    /\ goroutines' = Storing(g, SourceOf(g), "purge")
    /\ UNCHANGED <<plugin, routine, keys, now, pc, served, lock>>

\* plugin.purgeKeys()
GoPurge(g) ==
    /\ goroutines[g].pc = "purge"
    /\ keys' = purgeKeys(keys, issuerKeys)
    /\ goroutines' = [goroutines EXCEPT ![g].pc = "stored"]
    /\ UNCHANGED <<plugin, routine, issuerKeys, now, pc, served, lock>>

InitStore == InitWith(StoreConfigs)

NextStore ==
    \/ \E token \in CacheTokens : GoGetKey(Requester, token)
    \/ \E g \in Goroutines : GoRLock(g)
    \/ \E g \in Goroutines : GoLookup(g)
    \/ \E g \in Goroutines, answer \in Discoveries : GoDiscovery(g, answer)
    \/ \E g \in Goroutines, answer \in JWKSAnswers : GoJWKS(g, answer)
    \/ \E g \in Goroutines : GoLockWait(g)
    \/ \E g \in Goroutines : GoLock(g)
    \/ \E g \in Goroutines : GoMerge(g)
    \/ \E g \in Goroutines : GoReplace(g)
    \/ \E g \in Goroutines : GoPurge(g)
    \/ \E g \in Goroutines : GoUnlock(g)
    \/ \E g \in Goroutines : GoReturn(g)
    \/ GoFetchAllKeys
    \/ GoNextIssuer

SpecStore == InitStore /\ [][NextStore]_vars

\* The cache is whole: it has the kids that the key sets of the sources list
\* and no other
Whole == DOMAIN keys = UNION { DOMAIN issuerKeys[source] : source \in DOMAIN issuerKeys }

\* C31: at most one goroutine is between Lock and Unlock of fetchKeys, what
\* it has written when it reaches Unlock is what one uninterrupted fetchKeys
\* makes of the cache it found, and a goroutine that holds the read lock for
\* its lookup sees a whole cache, never merged keys that are not yet purged
C31_OneCriticalSection ==
    /\ Cardinality(InSection) <= 1
    /\ InSection # {} => lock.writer
    /\ \A g \in InSection : goroutines[g].pc = "stored" =>
          LET fetch == fetchKeys(goroutines[g].issuer,
                                 [discovery |-> goroutines[g].discovery,
                                  jwks |-> [ok |-> TRUE, keys |-> goroutines[g].jwks]],
                                 goroutines[g].before.keys, goroutines[g].before.issuerKeys)
          IN keys = fetch.keys /\ issuerKeys = fetch.issuerKeys
    /\ Reading # {} => Whole

\* A fetch has merged k1 and not yet purged, with its source's old key set
\* still in place, while a request waits for the read lock
C31_Witness ==
    \E g, h \in Goroutines :
        /\ goroutines[g].pc = "replace"
        /\ Kid1 \in DOMAIN goroutines[g].jwks
        /\ ~Whole
        /\ goroutines[h].pc = "rwait"

\* C38: a goroutine that has yet to write keys or issuerKeys holds the write
\* lock, alone, and no goroutine is then inside its lookup; a lookup runs
\* under the read lock; and with no issuer configured, where getKey reads
\* len(keys) without the lock, no goroutine is ever inside fetchKeys, so the
\* maps are what New made them
C38_NoUnlockedAccess ==
    /\ Writing # {} =>
          /\ lock.writer
          /\ Cardinality(Writing) = 1
          /\ Reading = {}
    /\ Reading # {} =>
          /\ ~lock.writer
          /\ lock.readers >= Cardinality(Reading)
    /\ Len(plugin.issuers) = 0 =>
          /\ \A g \in Goroutines :
                goroutines[g].pc \in {"idle", "rlock", "lookup", "returned", "panicked", "next"}
          /\ keys = New(NoIssuerConfig, <<Kid0>>).keys
          /\ issuerKeys = New(NoIssuerConfig, <<Kid0>>).issuerKeys

\* With no issuer configured a request has looked its kid up, missed, found
\* its issuer not valid and is in its second lookup, under the read lock
C38_Witness ==
    /\ Len(plugin.issuers) = 0
    /\ goroutines["r1"].pc = "lookup"
    /\ goroutines["r1"].looped
    /\ goroutines["r1"].fetches = 0
    /\ lock.readers = 1

(***************************************************************************)
(* The schedule of fetchRoutine: New starts it with the two durations, it  *)
(* sleeps and calls fetchAllKeys, and requests are served beside it.  The  *)
(* durations are counted in nanoseconds, which pass without the clock of   *)
(* the token checks, counted in seconds, moving.                           *)
(***************************************************************************)
RoutineConfigs ==
    { [CreateConfig EXCEPT !.Issuers = <<Issuer1>>, !.SkipPrefetch = skip,
                           !.DelayPrefetch = delay, !.RefreshKeysInterval = interval] :
        skip \in BOOLEAN, delay \in { <<>>, <<"1", "n", "s">>, <<"-", "1", "n", "s">>, <<"2", "n", "s">> },
        interval \in { <<>>, <<"0">>, <<"2", "n", "s">> } }

RoutineRequests ==
    { Request((Authorization :> <<Bearer \o text>>), <<>>, <<>>) : text \in { <<"t", ".", "k", "0">>, <<"t", ".", "k", "1">> } }

InitRoutine ==
    /\ \E config \in RoutineConfigs :
          /\ ConstructedFrom(config, <<>>)
          /\ goroutines = [g \in Goroutines |->
                              IF g = Refresher THEN Started(routine, config.SkipPrefetch)
                              ELSE Idle]
    /\ now = 1
    /\ pc = "idle"
    /\ served = <<>>
    /\ lock = Unlocked

NextRoutine ==
    \/ RoutineBegin
    \/ Elapse
    \/ RoutineFetch
    \/ GoNextIssuer
    \/ \E request \in RoutineRequests : ServeHTTP(Requester, request)
    \/ \E g \in Goroutines : GoRLock(g)
    \/ \E g \in Goroutines : GoLookup(g)
    \/ \E g \in Goroutines, answer \in Discoveries : GoDiscovery(g, answer)
    \/ \E g \in Goroutines, answer \in JWKSAnswers : GoJWKS(g, answer)
    \/ \E g \in Goroutines : GoLockWait(g)
    \/ \E g \in Goroutines : GoStore(g)
    \/ \E g \in Goroutines : GoUnlock(g)
    \/ \E g \in Goroutines : Deliver(g)
    \/ \E g \in Requesters : Complete(g)

SpecRoutine == InitRoutine /\ [][NextRoutine]_vars

\* The goroutines are scheduled, time passes, a goroutine that waits for
\* rw.w inside Lock() gets it if it is free again and again, and the network
\* answers every request
SpecRoutineFair ==
    /\ SpecRoutine
    /\ WF_vars(RoutineBegin)
    /\ WF_vars(Elapse)
    /\ WF_vars(RoutineFetch)
    /\ WF_vars(GoNextIssuer)
    /\ \A g \in Goroutines :
          /\ WF_vars(GoLookup(g))
          /\ WF_vars(GoRLock(g))
          /\ WF_vars(GoStore(g))
          /\ WF_vars(GoUnlock(g))
          /\ SF_vars(GoLockWait(g))
          /\ WF_vars(\E answer \in Discoveries : GoDiscovery(g, answer))
          /\ WF_vars(\E answer \in JWKSAnswers : GoJWKS(g, answer))

\* C32: with skipPrefetch the refresher makes no prefetch call; without it
\* it makes exactly one; with a zero refresh interval it ends after that,
\* and otherwise it goes on calling fetchAllKeys for ever; so with
\* skipPrefetch and a zero interval it never calls fetchAllKeys
C32_Schedule ==
    LET state == goroutines[Refresher]
    IN /\ [](state.prefetches <= 1)
       /\ [](state.skipPrefetch => state.prefetches = 0)
       /\ (~state.skipPrefetch => <>(state.prefetches = 1))
       /\ (state.refreshKeysInterval = Nanoseconds(0) => [](~state.odd) /\ <>[](state.pc = "done"))
       /\ (state.refreshKeysInterval # Nanoseconds(0) => []<>(state.odd) /\ []<>(~state.odd))

(***************************************************************************)
(* The refresh loop over two issuers and a pattern: fetchRoutine calls     *)
(* fetchAllKeys again and again, the network answers every request, with a *)
(* failure or a key set, and requests are served beside it.                *)
(***************************************************************************)
Issuer2 == <<"h", "t", "t", "p", "s", ":", "/", "/", "i", "2">>

RefreshConfigs ==
    { [CreateConfig EXCEPT !.Secret = secret, !.Issuers = <<Issuer1, IssuerWild, Issuer2>>,
                           !.RefreshKeysInterval = EveryNanosecond] : secret \in {<<"S">>} }

RefreshTokens ==
    { [header |-> jwt.header, claims |-> jwt.claims] :
        jwt \in { t \in JWTs : t.raw \in { <<"t", ".", "k", "i", "d", "n", "u", "m">>, <<"t", ".", "e", "v", "i", "l">> } } }

InitRefresh == InitWith(RefreshConfigs)

NextRefresh ==
    \/ \E token \in RefreshTokens : GoGetKey(Requester, token)
    \/ \E g \in Goroutines : GoRLock(g)
    \/ \E g \in Goroutines : GoLookup(g)
    \/ \E g \in Goroutines, answer \in Discoveries : GoDiscovery(g, answer)
    \/ \E g \in Goroutines, answer \in JWKSAnswers : GoJWKS(g, answer)
    \/ \E g \in Goroutines : GoLockWait(g)
    \/ \E g \in Goroutines : GoStore(g)
    \/ \E g \in Goroutines : GoUnlock(g)
    \/ \E g \in Goroutines : GoReturn(g)
    \/ GoFetchAllKeys
    \/ GoNextIssuer

SpecRefresh == InitRefresh /\ [][NextRefresh]_vars

\* The goroutines are scheduled, the loop of fetchRoutine goes on, and the
\* network answers every request
SpecRefreshFair ==
    /\ SpecRefresh
    /\ FairCache
    /\ WF_vars(GoFetchAllKeys)
    /\ WF_vars(GoNextIssuer)
    /\ \A g \in Goroutines :
          /\ WF_vars(\E answer \in Discoveries : GoDiscovery(g, answer))
          /\ WF_vars(\E answer \in JWKSAnswers : GoJWKS(g, answer))

\* The configured issuers that are no pattern, as fetchAllKeys fetches them
Fetched == { canonicalizeDomain(Issuer1), canonicalizeDomain(Issuer2) }

\* C33: in the refresh loop, after a fetch that failed fetchAllKeys goes on
\* to the next issuer of the cycle, and unless a fetchKeys of the refresher
\* never returns (it waits for the write lock for ever), every issuer that
\* is no pattern is fetched again and again; each key set that such a fetch
\* stores is in the cache, so a key published by then is cached
C33_RefreshGoesOn ==
    /\ \A issuer \in Fetched :
          (/\ goroutines[Refresher].pc = "next"
           /\ goroutines[Refresher].err = ErrFetch
           /\ goroutines[Refresher].todo # <<>>
           /\ Head(goroutines[Refresher].todo) = issuer)
              ~> (goroutines[Refresher].pc = "discovery"
                    /\ goroutines[Refresher].issuer = issuer)
    /\ \A issuer \in Fetched :
          \/ <>[](goroutines[Refresher].pc = "locking")
          \/ []<>(goroutines[Refresher].pc = "discovery"
                    /\ goroutines[Refresher].issuer = issuer)
    /\ [](goroutines[Refresher].pc = "stored" =>
             \A kid \in DOMAIN goroutines[Refresher].jwks :
                 kid \in DOMAIN keys /\ keys[kid] = goroutines[Refresher].jwks[kid])

\* In one cycle the fetch of the first issuer has failed and the refresher
\* has stored a key set with k1 for the second
C33_Witness ==
    /\ goroutines[Refresher].pc = "stored"
    /\ goroutines[Refresher].issuer = canonicalizeDomain(Issuer2)
    /\ goroutines[Refresher].fetches = 2
    /\ goroutines[Refresher].requests[2] = canonicalizeDomain(Issuer1) \o WellKnownJWKS
    /\ canonicalizeDomain(Issuer1) \o WellKnownJWKS \notin DOMAIN issuerKeys
    /\ Kid1 \in DOMAIN keys

====
